---- MODULE Spec2Model ----
(***************************************************************************)
(* Verification model of the JSON viewer's compute core.                   *)
(*                                                                         *)
(*   Part A  client-side worker manager and worker pool                    *)
(*           (json-worker-manager: LRUCache, WorkerPool, JsonWorkerManager)*)
(*   Part B  search orchestration of the useJsonViewer hook                *)
(*   Part C  tree construction and the worker's search handlers            *)
(*                                                                         *)
(* Strings are sequences of one-character strings, so that includes(),     *)
(* join() and toLowerCase() are computed rather than assumed.              *)
(***************************************************************************)
EXTENDS Integers, Sequences, FiniteSets, TLC

VARIABLES
    \* ---- Part A: WorkerPool
    workers,            \* WorkerPool.workers: sequence of worker identities
    availableWorkers,   \* WorkerPool.availableWorkers
    workerUsage,        \* WorkerPool.workerUsage: worker -> usage count
    workerObjs,         \* number of Worker objects constructed so far
    \* ---- Part A: JsonWorkerManager
    messageId,
    pendingCallbacks,   \* set of message ids holding a resolve closure
    rejectCallbacks,    \* set of message ids holding a reject closure
    progressCallbacks,
    streamCallbacks,
    timeoutIds,         \* message id -> time at which the watchdog fires
    workerMessageMap,   \* message id -> worker
    operationMetadata,  \* message id -> [startTime, type, memoryEstimate]
    currentMemoryUsage,
    metadataCacheSize,  \* number of entries of metadataCache
    parsedDataIdsSize,  \* number of entries of parsedDataIds
    memoryCleanupInterval, \* TRUE while the 30 s interval is installed
    \* ---- Part A: environment of the manager
    closure,            \* message id -> [call, worker, type]: what postMessage's closures captured
    acquiring,          \* postMessage executors suspended at `await getWorker`
    promise,            \* call number -> [state, value] of the returned promise
    wstate,             \* message id -> "running" | "done" | "dead" (worker side)
    now,                \* wall clock, in ticks of TickMs
    ev,                 \* the handler that ran last, and its subject
    \* ---- Part B: useJsonViewer / useDebouncedSearch
    jsonNode,           \* [loaded, expandedFor, expandedResults]: the tree, the queries
                        \* whose results expanded it and the results <<query, index>>
                        \* whose ancestors are expanded
    doc,                \* [len, totalValues] of the loaded document
    searchQuery,        \* [no, text]: the query of the latest searchJson call
    searchResults,      \* sequence of results, each tagged with the query it answers
    searchProgress,     \* number of the query whose progress is displayed (0: none)
    isSearching,
    currentSearchRef,   \* searchId of the current search (0 stands for '')
    timeoutRef,         \* useDebouncedSearch: the pending timer, <<>> when none
    currentOperationRef,
    nextId,             \* stands for Math.random().toString(36): a fresh id
    searches,           \* searchId -> the performSearch invocation awaiting its search
    idleQueue,          \* expandPaths callbacks handed to requestIdleCallback
    superseded,         \* queries that were unresolved when a later one was issued
    applied,            \* the query whose update the last step applied (0: none)
    \* ---- Part C: json-worker.ts and the tree builders of json-utils.ts
    input,              \* [parsed, data, query]: the JSON text (as JSON.parse reads it) and the query
    jsonPathLib,        \* what the JSONPath library answers for this tree and query
    tree,               \* the JsonNode the main thread holds, <<>> before any parse
    jobs,               \* messageId -> the search whose processChunk timer is pending
    outbox,             \* every message the worker has posted, in order
    received,           \* the types of the messages the worker has received, in order
    asyncJob,           \* the searchInJsonAsync call whose timer is pending, <<>> when none
    threadResults,      \* what the main-thread searches have returned, in order
    \* ---- Part D: the metadata cache, the worker's data store and lazy loading
    metadataCache,      \* LRUCache.cache: entries [key, value, timestamp] in Map order
    parseCalls,         \* document -> number of parseJson calls awaiting the worker
    parseReturn,        \* <<[doc, hit, node]>> when the last step returned from parseJson
    dateNow,            \* Date.now(), in milliseconds
    parsedDataIds,      \* JsonWorkerManager.parsedDataIds: cache key -> dataId
    workerDataStore,    \* json-worker.ts workerDataStore: dataId -> JsonNode
    dataTimestamps,     \* json-worker.ts dataTimestamps: dataId -> time stored
    lazyRequests,       \* messageId -> [dataId, path, found, limit, at] of a LAZY_LOAD_CHILDREN request
    lazyLoads,          \* messageId -> what lazyLoadChildren returned to its caller
    settled,            \* messageIds whose response the client has consumed
    \* ---- Part E: the tree the viewer shows and the transforms applied to it
    statsState,         \* stats of useJsonViewer: <<JsonStats>> once the document is parsed, <<>> before
    builtBy,            \* which branch of parseJson built the tree ("" before)
    lastTransform,      \* the transform applied last, its arguments and the tree before it
    rebuilt,            \* <<value>> once reconstructJsonFromNode has run, <<>> before
    loadedChunks,       \* VirtualizedJsonTree.loadedChunks: node key -> children shown
    lastLoadMore        \* the "load more" row activated last: its parent and the map before

poolVars == <<workers, availableWorkers, workerUsage, workerObjs>>
mapVars  == <<pendingCallbacks, rejectCallbacks, progressCallbacks, streamCallbacks,
              timeoutIds, workerMessageMap, operationMetadata, currentMemoryUsage,
              metadataCacheSize, parsedDataIdsSize>>
mgrVars  == <<poolVars, mapVars, messageId, memoryCleanupInterval, closure,
              acquiring, promise, wstate, now, ev>>

orchVars == <<jsonNode, doc, searchQuery, searchResults, searchProgress, isSearching,
               currentSearchRef, timeoutRef, currentOperationRef, nextId, searches,
               idleQueue, superseded, applied>>

threadVars == <<asyncJob, threadResults>>

wkVars == <<input, jsonPathLib, tree, jobs, outbox, received, threadVars>>

cacheVars == <<metadataCache, parseCalls, parseReturn>>

storeVars == <<parsedDataIds, workerDataStore, dataTimestamps, lazyRequests,
               lazyLoads, settled>>

lazyVars == <<cacheVars, storeVars, dateNow>>

viewVars == <<statsState, builtBy, lastTransform, rebuilt, loadedChunks, lastLoadMore>>

vars == <<mgrVars, orchVars, wkVars, lazyVars, viewVars>>

\* No transform has been applied
NoTransform == [op |-> "none", path |-> <<>>, results |-> <<>>, before |-> <<>>]

\* The viewer before a document is parsed, for the specifications of the other parts
ViewIdle ==
    /\ statsState = <<>>
    /\ builtBy = ""
    /\ lastTransform = NoTransform
    /\ rebuilt = <<>>
    /\ loadedChunks = <<>>
    /\ lastLoadMore = <<>>

(***************************************************************************)
(* Generic helpers                                                         *)
(***************************************************************************)
Range(s) == {s[i] : i \in DOMAIN s}

Remove(f, k) == [x \in (DOMAIN f) \ {k} |-> f[x]]

Put(f, k, v) == [x \in (DOMAIN f) \cup {k} |-> IF x = k THEN v ELSE f[x]]

Min(a, b) == IF a < b THEN a ELSE b

(***************************************************************************)
(* Part A.  Bounds and program constants                                   *)
(***************************************************************************)
MaxCalls == 4          \* requests issued by the caller in one run (Spec)
TimedCalls == 2        \* requests issued by the caller in one run (SpecTimed)
MaxWorkerObjs == 3     \* Worker objects ever constructed in one run
MaxTime == 3           \* the clock stops here
StackLimit == 8        \* call frames available before RangeError (engine limit)

TickMs == 120000                        \* one clock tick, in milliseconds
MAX_CONCURRENT_OPERATIONS == 3
MAX_OPERATION_AGE == 300000
MAX_MEMORY_USAGE == 100 * 1024 * 1024
WATCHDOG_MS == 120000
HardwareConcurrency == 4                \* navigator.hardwareConcurrency || 4
MAX_WORKERS == Min(HardwareConcurrency, 8)

SmallLen == 2000                        \* a document below every threshold
BigLen == 100000000                     \* the largest document ingestion admits

(***************************************************************************)
(* Part A.  The caller's inputs: one record per public method call         *)
(***************************************************************************)
ApiCalls ==
    { [api |-> "parseJson",         len |-> SmallLen, onProgress |-> FALSE],
      [api |-> "parseJson",         len |-> BigLen,   onProgress |-> TRUE ],
      [api |-> "searchStream",      len |-> 0,        onProgress |-> TRUE ],
      [api |-> "searchWithRawJson", len |-> BigLen,   onProgress |-> TRUE ] }

\* The WorkerMessage each public method builds (parseJson routes by length).
MessageType(c) ==
    CASE c.api = "parseJson" ->
             IF c.len > 10000000 THEN "PARSE_JSON_METADATA" ELSE "PARSE_JSON"
      [] c.api = "searchStream"      -> "SEARCH_STREAM"
      [] c.api = "calculateStats"    -> "CALCULATE_STATS"
      [] c.api = "searchWithRawJson" -> "SEARCH_RAW_JSON"

\* searchStream and searchStreamWithRawJson pass onResult; no other method does.
HasStreamCallback(c) == c.api = "searchStream"

\* Request types for which the worker posts PROGRESS before its terminal response.
EmitsProgress(type) ==
    type \in {"PARSE_JSON", "PARSE_JSON_METADATA", "SEARCH", "SEARCH_STREAM",
              "SEARCH_RAW_JSON", "SEARCH_RAW_JSON_STREAM"}

\* Request types answered by SEARCH_RESULT_STREAM messages.
IsStreamType(type) == type \in {"SEARCH_STREAM", "SEARCH_RAW_JSON_STREAM"}

\* The type of the worker's terminal response to a request type.
TerminalType(type) ==
    CASE type = "PARSE_JSON"          -> "PARSE_JSON_SUCCESS"
      [] type = "PARSE_JSON_METADATA" -> "PARSE_JSON_METADATA_SUCCESS"
      [] type = "CALCULATE_STATS"     -> "STATS_CALCULATED"
      [] type = "LAZY_LOAD_CHILDREN"  -> "CHILDREN_LOADED"
      [] OTHER                        -> "SEARCH_RESULTS"

(***************************************************************************)
(* Part A.  WorkerPool                                                     *)
(***************************************************************************)
GetOptimalWorkerCount(dataSize) ==
    IF dataSize > 50000000 THEN MAX_WORKERS
    ELSE IF dataSize > 10000000 THEN Min(2, MAX_WORKERS)
    ELSE 1

UsageOf(usage, w) == IF w \in DOMAIN usage THEN usage[w] ELSE 0

\* The first worker of `ws` with the lowest usage count (strict < keeps the first).
LeastUsed(ws, usage) ==
    LET i == CHOOSE i \in DOMAIN ws :
                 /\ \A j \in DOMAIN ws : UsageOf(usage, ws[i]) <= UsageOf(usage, ws[j])
                 /\ \A j \in 1..(i - 1) : UsageOf(usage, ws[j]) > UsageOf(usage, ws[i])
    IN ws[i]

\* getWorker on a pool record p; the chosen worker is returned in p.got.
GetWorker(p, dataSize) ==
    IF Len(p.availableWorkers) > 0 THEN
        LET w == p.availableWorkers[Len(p.availableWorkers)] IN
        [p EXCEPT !.availableWorkers = SubSeq(@, 1, Len(@) - 1),
                  !.workerUsage = Put(@, w, UsageOf(@, w) + 1),
                  !.got = w]
    ELSE IF Len(p.workers) < GetOptimalWorkerCount(dataSize) THEN
        LET w == p.workerObjs + 1 IN
        [p EXCEPT !.workers = Append(@, w),
                  !.workerUsage = Put(@, w, 1),
                  !.workerObjs = w,
                  !.got = w]
    ELSE
        LET w == LeastUsed(p.workers, p.workerUsage) IN
        [p EXCEPT !.workerUsage = Put(@, w, UsageOf(@, w) + 1),
                  !.got = w]

\* releaseWorker on a state record carrying the pool fields.
ReleaseWorker(m, w) ==
    LET currentUsage == UsageOf(m.workerUsage, w)
        m1 == IF currentUsage > 0
              THEN [m EXCEPT !.workerUsage = Put(@, w, currentUsage - 1)]
              ELSE m
    IN IF currentUsage <= 1 /\ w \notin Range(m1.availableWorkers)
       THEN [m1 EXCEPT !.availableWorkers = Append(@, w)]
       ELSE m1

(***************************************************************************)
(* Part A.  JsonWorkerManager: the synchronous code, as operators on a     *)
(* record m of the manager's fields.  m.thrown is set once an exception    *)
(* unwinds the stack; d is the number of call frames still available.      *)
(***************************************************************************)
MgrState ==
    [ workers |-> workers, availableWorkers |-> availableWorkers,
      workerUsage |-> workerUsage, workerObjs |-> workerObjs,
      pendingCallbacks |-> pendingCallbacks, rejectCallbacks |-> rejectCallbacks,
      progressCallbacks |-> progressCallbacks, streamCallbacks |-> streamCallbacks,
      timeoutIds |-> timeoutIds, workerMessageMap |-> workerMessageMap,
      operationMetadata |-> operationMetadata,
      currentMemoryUsage |-> currentMemoryUsage,
      metadataCacheSize |-> metadataCacheSize,
      parsedDataIdsSize |-> parsedDataIdsSize,
      promise |-> promise, notified |-> FALSE, thrown |-> FALSE ]

Commit(m) ==
    /\ workers' = m.workers
    /\ availableWorkers' = m.availableWorkers
    /\ workerUsage' = m.workerUsage
    /\ workerObjs' = m.workerObjs
    /\ pendingCallbacks' = m.pendingCallbacks
    /\ rejectCallbacks' = m.rejectCallbacks
    /\ progressCallbacks' = m.progressCallbacks
    /\ streamCallbacks' = m.streamCallbacks
    /\ timeoutIds' = m.timeoutIds
    /\ workerMessageMap' = m.workerMessageMap
    /\ operationMetadata' = m.operationMetadata
    /\ currentMemoryUsage' = m.currentMemoryUsage
    /\ metadataCacheSize' = m.metadataCacheSize
    /\ parsedDataIdsSize' = m.parsedDataIdsSize
    /\ promise' = m.promise

\* RangeError: Maximum call stack size exceeded.
Throw(m) == [m EXCEPT !.thrown = TRUE]

\* resolve / reject of the promise of call c: settling a settled promise is a no-op.
Settle(m, c, state, value) ==
    IF m.promise[c].state = "pending"
    THEN [m EXCEPT !.promise[c] = [state |-> state, value |-> value]]
    ELSE m

RECURSIVE CleanupOperation(_, _, _, _)
RECURSIVE RejectCallback(_, _, _, _)

\* cleanupOperation(messageId, reason)
CleanupOperation(m, id, reason, d) ==
    IF d = 0 THEN Throw(m) ELSE
    LET m1 == IF id \in DOMAIN m.timeoutIds
              THEN [m EXCEPT !.timeoutIds = Remove(@, id)]
              ELSE m
        m2 == IF id \in m1.rejectCallbacks
              THEN RejectCallback(m1, id, reason, d - 1)
              ELSE m1
    IN IF m2.thrown THEN m2 ELSE
       LET m3 == [m2 EXCEPT !.pendingCallbacks = @ \ {id},
                            !.progressCallbacks = @ \ {id},
                            !.streamCallbacks = @ \ {id},
                            !.rejectCallbacks = @ \ {id}]
       IN IF id \in DOMAIN m3.operationMetadata
          THEN [m3 EXCEPT !.currentMemoryUsage =
                              @ - m3.operationMetadata[id].memoryEstimate,
                          !.operationMetadata = Remove(@, id)]
          ELSE m3

\* The closure stored in rejectCallbacks by postMessage.
RejectCallback(m, id, error, d) ==
    IF d = 0 THEN Throw(m) ELSE
    LET m1 == ReleaseWorker(m, closure[id].worker)
        m2 == [m1 EXCEPT !.workerMessageMap = Remove(@, id)]
        m3 == CleanupOperation(m2, id, "Operation cleaned up", d - 1)
    IN IF m3.thrown THEN m3
       ELSE Settle(m3, closure[id].call, "rejected", error)

\* The closure stored in pendingCallbacks by postMessage.
PendingCallback(m, id, response, d) ==
    IF d = 0 THEN Throw(m) ELSE
    LET m1 == ReleaseWorker(m, closure[id].worker)
        m2 == [m1 EXCEPT !.workerMessageMap = Remove(@, id)]
        m3 == CleanupOperation(m2, id, "Operation cleaned up", d - 1)
    IN IF m3.thrown THEN m3
       ELSE Settle(m3, closure[id].call, "fulfilled", response)

WatchdogTicks == WATCHDOG_MS \div TickMs

\* worker.onmessage as installed by setupWorkerMessageHandler, for a message
\* [messageId, type, result, isComplete].
OnWorkerMessage(m, msg, d) ==
    LET id == msg.messageId IN
    IF msg.type = "PROGRESS" /\ id \in m.progressCallbacks THEN
        LET m1 ==
              IF id \in DOMAIN m.timeoutIds THEN
                  IF id \in m.rejectCallbacks
                  THEN [m EXCEPT !.timeoutIds[id] =
                           [at |-> now + WatchdogTicks, armed |-> TRUE,
                            reason |-> "Worker operation timed out after progress"]]
                  ELSE [m EXCEPT !.timeoutIds[id].armed = FALSE]
              ELSE m
        IN [m1 EXCEPT !.notified = TRUE]
    ELSE IF msg.type = "SEARCH_RESULT_STREAM" /\ id \in m.streamCallbacks THEN
        LET m1 == IF msg.result THEN [m EXCEPT !.notified = TRUE] ELSE m
        IN IF msg.isComplete
           THEN LET m2 == IF id \in m1.pendingCallbacks
                          THEN PendingCallback(m1, id, "SEARCH_RESULTS", d - 1)
                          ELSE m1
                IN IF m2.thrown THEN m2
                   ELSE CleanupOperation(m2, id, "Operation cleaned up", d - 1)
           ELSE m1
    ELSE IF id \in m.pendingCallbacks THEN
        LET m1 == PendingCallback(m, id, msg.type, d - 1)
        IN IF m1.thrown THEN m1
           ELSE CleanupOperation(m1, id, "Operation cleaned up", d - 1)
    ELSE m

EstimateOperationMemory(type, len) ==
    1024 + (CASE type = "PARSE_JSON" /\ len > 0      -> len * 2
              [] type = "SEARCH"                     -> 50 * 1024
              [] type = "SEARCH_RAW_JSON" /\ len > 0 -> len \div 2
              [] OTHER                               -> 0)

CanAcceptNewOperation(m, estimatedMemory) ==
    /\ ~(Cardinality(DOMAIN m.operationMetadata) >= MAX_CONCURRENT_OPERATIONS)
    /\ ~(m.currentMemoryUsage + estimatedMemory > MAX_MEMORY_USAGE)

CalculateCurrentMemoryUsage(m) ==
      Cardinality(m.pendingCallbacks) * 1024
    + Cardinality(m.progressCallbacks) * 512
    + Cardinality(m.streamCallbacks) * 512
    + Cardinality(m.rejectCallbacks) * 512
    + m.metadataCacheSize * 1024
    + Cardinality(DOMAIN m.operationMetadata) * 256
    + m.parsedDataIdsSize * 128

\* The ids of `ids` in ascending order (Map iteration order = insertion order).
RECURSIVE Ascending(_)
Ascending(ids) ==
    IF ids = {} THEN <<>>
    ELSE LET lo == CHOOSE x \in ids : \A y \in ids : x <= y
         IN <<lo>> \o Ascending(ids \ {lo})

RECURSIVE CleanupAll(_, _, _)
CleanupAll(m, ids, d) ==
    IF ids = <<>> \/ m.thrown THEN m
    ELSE CleanupAll(CleanupOperation(m, Head(ids), "Operation cleanup due to age", d),
                    Tail(ids), d)

\* The operations cleanupMemory() finds older than MAX_OPERATION_AGE.
StaleOperations(m) ==
    {id \in DOMAIN m.operationMetadata :
        (now - m.operationMetadata[id].startTime) * TickMs > MAX_OPERATION_AGE}

\* cleanupMemory()
CleanupMemory(m, d) ==
    LET m1 == CleanupAll(m, Ascending(StaleOperations(m)), d - 1)
    IN IF m1.thrown THEN m1
       ELSE IF m1.currentMemoryUsage > MAX_MEMORY_USAGE
            THEN LET m2 == [m1 EXCEPT !.metadataCacheSize = 0,
                                      !.parsedDataIdsSize = 0]
                 IN [m2 EXCEPT !.currentMemoryUsage = CalculateCurrentMemoryUsage(m2)]
            ELSE m1

(***************************************************************************)
(* Part A.  Actions                                                        *)
(***************************************************************************)
NoEvent == [kind |-> "none", id |-> 0]

Event(kind, id) == [kind |-> kind, id |-> id]

Pending == [state |-> "pending", value |-> "none"]

InitMgr ==
    /\ workers = <<>>
    /\ availableWorkers = <<>>
    /\ workerUsage = <<>>
    /\ workerObjs = 0
    /\ messageId = 0
    /\ pendingCallbacks = {}
    /\ rejectCallbacks = {}
    /\ progressCallbacks = {}
    /\ streamCallbacks = {}
    /\ timeoutIds = <<>>
    /\ workerMessageMap = <<>>
    /\ operationMetadata = <<>>
    /\ currentMemoryUsage = 0
    /\ metadataCacheSize = 0
    /\ parsedDataIdsSize = 0
    /\ memoryCleanupInterval = TRUE
    /\ closure = <<>>
    /\ acquiring = <<>>
    /\ promise = <<>>
    /\ wstate = <<>>
    /\ now = 0
    /\ ev = NoEvent

\* The length postMessage hands to getWorker.
DataSize(type, len) ==
    IF type \in {"PARSE_JSON", "SEARCH_RAW_JSON", "SEARCH_RAW_JSON_STREAM"}
    THEN len ELSE 0

PoolState ==
    [ workers |-> workers, availableWorkers |-> availableWorkers,
      workerUsage |-> workerUsage, workerObjs |-> workerObjs, got |-> 0 ]

\* A public method is called: postMessage runs up to `await getWorker(...)`;
\* getWorker itself has no await, so its body runs within the same step.
Request(c, maxCalls) ==
    /\ Len(promise) < maxCalls
    /\ memoryCleanupInterval          \* the owner calls nothing after terminate()
    /\ LET type == MessageType(c)
           est == EstimateOperationMemory(type, c.len)
           p == GetWorker(PoolState, DataSize(type, c.len))
       IN IF ~CanAcceptNewOperation(MgrState, est)
          THEN /\ promise' = Append(promise,
                     [state |-> "rejected",
                      value |-> IF Cardinality(DOMAIN operationMetadata)
                                       >= MAX_CONCURRENT_OPERATIONS
                                THEN "Too many concurrent operations"
                                ELSE "Memory limit would be exceeded"])
               /\ ev' = Event("overloaded", 0)
               /\ UNCHANGED <<poolVars, mapVars, messageId, memoryCleanupInterval,
                              closure, acquiring, wstate, now>>
          ELSE /\ p.workerObjs <= MaxWorkerObjs
               /\ workers' = p.workers
               /\ availableWorkers' = p.availableWorkers
               /\ workerUsage' = p.workerUsage
               /\ workerObjs' = p.workerObjs
               /\ acquiring' = Append(acquiring,
                     [call |-> Len(promise) + 1, worker |-> p.got, type |-> type,
                      len |-> c.len,
                      estimatedMemory |-> est, onProgress |-> c.onProgress,
                      onStreamResult |-> HasStreamCallback(c)])
               /\ promise' = Append(promise, Pending)
               /\ ev' = NoEvent
               /\ UNCHANGED <<mapVars, messageId, memoryCleanupInterval, closure,
                              wstate, now>>

\* The rest of postMessage, resumed as a microtask once getWorker's promise settles.
Register ==
    /\ acquiring # <<>>
    /\ LET a == Head(acquiring)
           id == messageId + 1
       IN /\ messageId' = id
          /\ timeoutIds' = Put(timeoutIds, id,
                 [at |-> now + WatchdogTicks, armed |-> TRUE,
                  reason |-> "Worker operation timed out"])
          /\ operationMetadata' = Put(operationMetadata, id,
                 [startTime |-> now, type |-> a.type,
                  memoryEstimate |-> a.estimatedMemory])
          /\ workerMessageMap' = Put(workerMessageMap, id, a.worker)
          /\ currentMemoryUsage' = currentMemoryUsage + a.estimatedMemory
          /\ pendingCallbacks' = pendingCallbacks \cup {id}
          /\ rejectCallbacks' = rejectCallbacks \cup {id}
          /\ progressCallbacks' =
                 IF a.onProgress THEN progressCallbacks \cup {id} ELSE progressCallbacks
          /\ streamCallbacks' =
                 IF a.onStreamResult THEN streamCallbacks \cup {id} ELSE streamCallbacks
          /\ closure' = Put(closure, id,
                 [call |-> a.call, worker |-> a.worker, type |-> a.type])
          \* worker.postMessage: a terminated worker never answers
          /\ wstate' = Put(wstate, id,
                 IF a.worker \in Range(workers) THEN "running" ELSE "dead")
          /\ acquiring' = Tail(acquiring)
          /\ ev' = NoEvent
    /\ UNCHANGED <<poolVars, metadataCacheSize, parsedDataIdsSize,
                   memoryCleanupInterval, promise, now>>

\* A macrotask (worker message, timer, interval) starts only when no microtask is
\* queued.
TaskBoundary == acquiring = <<>>

\* The main thread handles one message of a worker.
Deliver(msg, kind) ==
    LET m == OnWorkerMessage(MgrState, msg, StackLimit)
    IN /\ Commit(m)
       /\ ev' = Event(kind, msg.messageId)
       /\ UNCHANGED <<messageId, memoryCleanupInterval, closure, acquiring, now>>

WorkerProgress(id) ==
    /\ TaskBoundary
    /\ wstate[id] = "running"
    /\ EmitsProgress(closure[id].type)
    /\ Deliver([messageId |-> id, type |-> "PROGRESS", result |-> FALSE,
                isComplete |-> FALSE], "progress")
    /\ UNCHANGED wstate

WorkerStreamResult(id) ==
    /\ TaskBoundary
    /\ wstate[id] = "running"
    /\ IsStreamType(closure[id].type)
    /\ Deliver([messageId |-> id, type |-> "SEARCH_RESULT_STREAM", result |-> TRUE,
                isComplete |-> FALSE], "stream")
    /\ UNCHANGED wstate

\* The responses that end a request of the given type.
TerminalMessages(id, type) ==
    IF IsStreamType(type)
    THEN {[messageId |-> id, type |-> "SEARCH_RESULT_STREAM", result |-> r,
           isComplete |-> TRUE] : r \in BOOLEAN}
    ELSE {[messageId |-> id, type |-> t, result |-> FALSE, isComplete |-> FALSE] :
             t \in {TerminalType(type)} \cup
                   (IF type \in {"PARSE_JSON", "PARSE_JSON_METADATA"}
                    THEN {"PARSE_JSON_ERROR"} ELSE {})}

WorkerTerminal(id) ==
    /\ TaskBoundary
    /\ wstate[id] = "running"
    /\ \E msg \in TerminalMessages(id, closure[id].type) : Deliver(msg, "terminal")
    /\ wstate' = [wstate EXCEPT ![id] = "done"]

\* The watchdog of operation id fires.
Timeout(id) ==
    /\ TaskBoundary
    /\ timeoutIds[id].armed
    /\ now >= timeoutIds[id].at
    /\ Commit(CleanupOperation(MgrState, id, timeoutIds[id].reason, StackLimit))
    /\ ev' = Event("timeout", id)
    /\ UNCHANGED <<messageId, memoryCleanupInterval, closure, acquiring, wstate, now>>

\* What a run of cleanupMemory() is remembered as: the first operation it reaped.
SweepEvent(kind) ==
    LET stale == Ascending(StaleOperations(MgrState))
    IN IF stale = <<>> THEN NoEvent
       ELSE Event(kind, Head(stale))

\* The 30 s interval runs cleanupMemory().
Sweep ==
    /\ TaskBoundary
    /\ memoryCleanupInterval
    /\ Commit(CleanupMemory(MgrState, StackLimit))
    /\ ev' = SweepEvent("sweep")
    /\ UNCHANGED <<messageId, memoryCleanupInterval, closure, acquiring, wstate, now>>

\* forceCleanup(), called by the owner of the manager.
ForceCleanup ==
    /\ memoryCleanupInterval
    /\ Commit(CleanupMemory(MgrState, StackLimit))
    /\ ev' = SweepEvent("sweep")
    /\ UNCHANGED <<messageId, memoryCleanupInterval, closure, acquiring, wstate, now>>

\* terminate()
Terminate ==
    /\ memoryCleanupInterval
    /\ memoryCleanupInterval' = FALSE
    /\ workers' = <<>>
    /\ availableWorkers' = <<>>
    /\ workerUsage' = <<>>
    /\ pendingCallbacks' = {}
    /\ progressCallbacks' = {}
    /\ streamCallbacks' = {}
    /\ timeoutIds' = <<>>
    /\ rejectCallbacks' = {}
    /\ operationMetadata' = <<>>
    /\ metadataCacheSize' = 0
    /\ parsedDataIdsSize' = 0
    /\ workerMessageMap' = <<>>
    /\ currentMemoryUsage' = 0
    /\ wstate' = [id \in DOMAIN wstate |->
                     IF wstate[id] = "running" THEN "dead" ELSE wstate[id]]
    /\ ev' = Event("terminate", 0)
    /\ UNCHANGED <<workerObjs, messageId, closure, acquiring, promise, now>>

\* clearCache(), called by the owner of the manager.
ManagerClearCache ==
    /\ metadataCacheSize' = 0
    /\ parsedDataIdsSize' = 0
    /\ currentMemoryUsage' =
          CalculateCurrentMemoryUsage([MgrState EXCEPT !.metadataCacheSize = 0,
                                                       !.parsedDataIdsSize = 0])
    /\ ev' = Event("clearCache", 0)
    /\ UNCHANGED <<poolVars, pendingCallbacks, rejectCallbacks, progressCallbacks,
                   streamCallbacks, timeoutIds, workerMessageMap, operationMetadata,
                   messageId, memoryCleanupInterval, closure, acquiring, promise,
                   wstate, now>>

\* Time passes; a due watchdog fires before the clock moves on.
Tick ==
    /\ TaskBoundary
    /\ now < MaxTime
    /\ \A id \in DOMAIN timeoutIds : timeoutIds[id].armed => now < timeoutIds[id].at
    /\ now' = now + 1
    /\ ev' = NoEvent
    /\ UNCHANGED <<poolVars, mapVars, messageId, memoryCleanupInterval, closure,
                   acquiring, promise, wstate>>

Ids == 1..messageId

\* Everything that can happen within one watchdog period.
\* A step of the manager leaves the rest of the application alone.
MgrOnly == UNCHANGED <<orchVars, wkVars, lazyVars, viewVars>>

NextMgr(maxCalls) ==
    \/ \E c \in ApiCalls : Request(c, maxCalls) /\ MgrOnly
    \/ Register /\ MgrOnly
    \/ \E id \in Ids : WorkerProgress(id) /\ MgrOnly
    \/ \E id \in Ids : WorkerStreamResult(id) /\ MgrOnly
    \/ \E id \in Ids : WorkerTerminal(id) /\ MgrOnly
    \/ Sweep /\ MgrOnly
    \/ ForceCleanup /\ MgrOnly
    \/ Terminate /\ MgrOnly

\* The same with the clock running: watchdogs expire and operations age.
NextTimed ==
    \/ NextMgr(TimedCalls)
    \/ \E id \in DOMAIN timeoutIds : Timeout(id) /\ MgrOnly
    \/ Tick /\ MgrOnly

\* The same, with the owner clearing the cache at any moment.
NextMemory ==
    \/ NextTimed
    \/ ManagerClearCache /\ MgrOnly

(***************************************************************************)
(* Strings: sequences of one-character strings                             *)
(***************************************************************************)
IsSpace(ch) == ch = " "

RECURSIVE TrimStart(_)
TrimStart(str) ==
    IF str # <<>> /\ IsSpace(Head(str)) THEN TrimStart(Tail(str)) ELSE str

RECURSIVE TrimEnd(_)
TrimEnd(str) ==
    IF str # <<>> /\ IsSpace(str[Len(str)])
    THEN TrimEnd(SubSeq(str, 1, Len(str) - 1)) ELSE str

\* String.prototype.trim
Trim(str) == TrimEnd(TrimStart(str))

\* String.prototype.startsWith
StartsWith(str, prefix) ==
    /\ Len(prefix) <= Len(str)
    /\ SubSeq(str, 1, Len(prefix)) = prefix

\* String.prototype.includes
Includes(str, sub) ==
    \E i \in 0..(Len(str) - Len(sub)) : SubSeq(str, i + 1, i + Len(sub)) = sub

(***************************************************************************)
(* Part B.  Search orchestration (useJsonViewer, useDebouncedSearch)       *)
(***************************************************************************)
MaxQueries == 3        \* searchJson calls in one run
MaxHits == 2           \* results one in-thread search delivers
MaxStreamHits == 6     \* results one streamed search delivers

\* The queries the user types.
Queries == { <<"a">>, <<" ">>, <<"$">>, <<"$", ".", "a">>, <<"$", ".", "a", "[">> }

\* The documents the user has loaded: text length and stats.totalValues.
Documents ==
    { [len |-> 100,     totalValues |-> 10],
      [len |-> 200000,  totalValues |-> 6000],
      [len |-> 6000000, totalValues |-> 60000] }

\* JsonWorkerManager.shouldUseWorker
ShouldUseWorker(len, totalValues, isComplexQuery) ==
    \/ len > 5000000
    \/ totalValues > 50000
    \/ (isComplexQuery /\ totalValues > 10000)

InitOrch ==
    /\ doc \in Documents
    /\ jsonNode = [loaded |-> TRUE, expandedFor |-> {}, expandedResults |-> {}]
    /\ searchQuery = [no |-> 0, text |-> <<>>]
    /\ searchResults = <<>>
    /\ searchProgress = 0
    /\ isSearching = FALSE
    /\ currentSearchRef = 0
    /\ timeoutRef = <<>>
    /\ currentOperationRef = 0
    /\ nextId = 1
    /\ searches = <<>>
    /\ idleQueue = <<>>
    /\ superseded = {}
    /\ applied = 0

\* Queries whose search has been started and has not resolved.
Unresolved == {searches[sid].no : sid \in DOMAIN searches}

\* expandPathsToResults(results): schedules expandPaths unless results is empty.
\* The results are those of query `no` at the indices first..last of its list.
ExpandPathsToResults(queue, no, first, last) ==
    IF last < first THEN queue
    ELSE Append(queue, [no |-> no, results |-> first..last])

\* searchJson(query)
SearchJson(q) ==
    /\ searchQuery.no < MaxQueries
    /\ LET no == searchQuery.no + 1
           trimmedQuery == Trim(q)
           isJsonPathQuery == StartsWith(trimmedQuery, <<"$">>)
       IN IF ~jsonNode.loaded THEN
              \* clearSearchState()
              /\ searchResults' = <<>>
              /\ isSearching' = FALSE
              /\ searchProgress' = 0
              /\ UNCHANGED <<jsonNode, searchQuery, currentSearchRef, timeoutRef,
                             currentOperationRef, nextId, superseded>>
          ELSE
              /\ searchQuery' = [no |-> no, text |-> q]
              /\ superseded' = superseded \cup Unresolved
              /\ IF trimmedQuery = <<>> THEN
                     \* cancelPending(); clearSearchState(); resetNodeExpansion
                     /\ timeoutRef' = <<>>
                     /\ currentOperationRef' = 0
                     /\ searchResults' = <<>>
                     /\ isSearching' = FALSE
                     /\ searchProgress' = 0
                     /\ jsonNode' = [jsonNode EXCEPT !.expandedFor = {},
                                                     !.expandedResults = {}]
                     /\ UNCHANGED nextId
                 ELSE IF isJsonPathQuery
                         /\ (Len(trimmedQuery) < 3 \/ ~Includes(trimmedQuery, <<".">>))
                 THEN
                     \* cancelPending(); clearSearchState()
                     /\ timeoutRef' = <<>>
                     /\ currentOperationRef' = 0
                     /\ searchResults' = <<>>
                     /\ isSearching' = FALSE
                     /\ searchProgress' = 0
                     /\ UNCHANGED <<jsonNode, nextId>>
                 ELSE
                     \* cancelPending(); debouncedSearch(query)
                     /\ timeoutRef' = <<[operationId |-> nextId, no |-> no, query |-> q,
                                         delay |-> IF isJsonPathQuery THEN 400 ELSE 100]>>
                     /\ currentOperationRef' = nextId
                     /\ nextId' = nextId + 1
                     /\ UNCHANGED <<jsonNode, searchResults, isSearching, searchProgress>>
              /\ UNCHANGED currentSearchRef
    /\ applied' = 0
    /\ UNCHANGED <<doc, searches, idleQueue>>

\* The debounce timer fires: the callback passed to useDebouncedSearch runs
\* performSearch(query, searchId) up to its first await.
DebounceFire ==
    /\ timeoutRef # <<>>
    /\ LET t == timeoutRef[1]
           searchId == nextId
           isComplexQuery == StartsWith(Trim(t.query), <<"$">>)
           useWorker == ShouldUseWorker(doc.len, doc.totalValues, isComplexQuery)
           shouldUseAsync == doc.totalValues > 5000
       IN /\ timeoutRef' = <<>>
          /\ IF currentOperationRef # t.operationId THEN
                 UNCHANGED <<jsonNode, searchResults, searchProgress, isSearching,
                             currentSearchRef, nextId, searches, idleQueue, applied>>
             ELSE
                 /\ currentSearchRef' = searchId
                 /\ nextId' = nextId + 1
                 /\ IF ~jsonNode.loaded THEN
                        UNCHANGED <<jsonNode, searchResults, searchProgress,
                                    isSearching, searches, idleQueue, applied>>
                    ELSE IF useWorker \/ shouldUseAsync THEN
                        \* startSearching(); clearSearchState(); await the search
                        /\ searchResults' = <<>>
                        /\ isSearching' = FALSE
                        /\ searchProgress' = 0
                        /\ searches' = Put(searches, searchId,
                               [no |-> t.no,
                                path |-> IF useWorker THEN "worker" ELSE "async",
                                delivered |-> 0])
                        /\ applied' = 0
                        /\ UNCHANGED <<jsonNode, idleQueue>>
                    ELSE
                        \* searchInJson(jsonNode, query) returns within the same task
                        \E count \in 0..MaxHits :
                            /\ searchResults' = [k \in 1..count |-> t.no]
                            /\ idleQueue' = ExpandPathsToResults(idleQueue, t.no, 1, count)
                            /\ isSearching' = FALSE
                            /\ searchProgress' = 0
                            /\ applied' = t.no
                            /\ UNCHANGED <<jsonNode, searches>>
    /\ UNCHANGED <<doc, searchQuery, currentOperationRef, superseded>>

\* resultHandler(result), called by the manager for one streamed result.
StreamResult(sid) ==
    /\ searches[sid].path = "worker"
    \* bound: a superseded search delivers at most MaxHits results
    /\ searches[sid].delivered <
          (IF currentSearchRef = sid THEN MaxStreamHits ELSE MaxHits)
    /\ searches' = [searches EXCEPT ![sid].delivered = @ + 1]
    /\ IF currentSearchRef = sid
       THEN /\ searchResults' = Append(searchResults, searches[sid].no)
            /\ idleQueue' = IF Len(searchResults) + 1 <= 5
                            THEN ExpandPathsToResults(idleQueue, searches[sid].no,
                                     Len(searchResults) + 1, Len(searchResults) + 1)
                            ELSE idleQueue
            /\ applied' = searches[sid].no
       ELSE /\ applied' = 0
            /\ UNCHANGED <<searchResults, idleQueue>>
    /\ UNCHANGED <<jsonNode, doc, searchQuery, searchProgress, isSearching,
                   currentSearchRef, timeoutRef, currentOperationRef, nextId, superseded>>

\* progressHandler / the onProgress closure of the chunked search.
SearchProgress(sid) ==
    /\ IF currentSearchRef = sid
       THEN /\ searchProgress' = searches[sid].no
            /\ applied' = searches[sid].no
       ELSE /\ applied' = 0
            /\ UNCHANGED searchProgress
    /\ UNCHANGED <<jsonNode, doc, searchQuery, searchResults, isSearching,
                   currentSearchRef, timeoutRef, currentOperationRef, nextId, searches,
                   idleQueue, superseded>>

\* `await searchInJsonAsync(...)` returns its results.
AsyncDone(sid) ==
    /\ searches[sid].path = "async"
    /\ searches' = Remove(searches, sid)
    /\ IF currentSearchRef = sid
       THEN \E count \in 0..MaxHits :
                /\ searchResults' = [k \in 1..count |-> searches[sid].no]
                /\ idleQueue' = ExpandPathsToResults(idleQueue, searches[sid].no, 1, count)
                /\ isSearching' = FALSE
                /\ searchProgress' = 0
                /\ applied' = searches[sid].no
       ELSE /\ applied' = 0
            /\ UNCHANGED <<searchResults, idleQueue, isSearching, searchProgress>>
    /\ UNCHANGED <<jsonNode, doc, searchQuery, currentSearchRef, timeoutRef,
                   currentOperationRef, nextId, superseded>>

\* `await worker.searchStream(...)` returns: the stream is complete.
WorkerDone(sid) ==
    /\ searches[sid].path = "worker"
    /\ searches' = Remove(searches, sid)
    /\ IF currentSearchRef = sid
       THEN /\ isSearching' = FALSE
            /\ applied' = searches[sid].no
       ELSE /\ applied' = 0
            /\ UNCHANGED isSearching
    /\ UNCHANGED <<jsonNode, doc, searchQuery, searchResults, searchProgress,
                   currentSearchRef, timeoutRef, currentOperationRef, nextId, idleQueue,
                   superseded>>

\* `await worker.searchStream(...)` throws: the manager refused the operation.
WorkerRejected(sid) ==
    /\ searches[sid].path = "worker"
    /\ searches[sid].delivered = 0
    /\ searches' = Remove(searches, sid)
    /\ IF currentSearchRef = sid
       THEN /\ searchResults' = <<>>
            /\ isSearching' = FALSE
            /\ searchProgress' = 0
            /\ applied' = searches[sid].no
       ELSE /\ applied' = 0
            /\ UNCHANGED <<searchResults, isSearching, searchProgress>>
    /\ UNCHANGED <<jsonNode, doc, searchQuery, currentSearchRef, timeoutRef,
                   currentOperationRef, nextId, idleQueue, superseded>>

\* The browser runs one expandPaths callback scheduled by expandPathsToResults.
IdleExpand ==
    /\ idleQueue # <<>>
    /\ idleQueue' = Tail(idleQueue)
    /\ IF jsonNode.loaded
       THEN /\ jsonNode' = [jsonNode EXCEPT
                   !.expandedFor = @ \cup {Head(idleQueue).no},
                   !.expandedResults =
                       @ \cup {<<Head(idleQueue).no, k>> : k \in Head(idleQueue).results}]
            /\ applied' = Head(idleQueue).no
       ELSE /\ applied' = 0
            /\ UNCHANGED jsonNode
    /\ UNCHANGED <<doc, searchQuery, searchResults, searchProgress, isSearching,
                   currentSearchRef, timeoutRef, currentOperationRef, nextId, searches,
                   superseded>>

\* clearData()
ClearData ==
    /\ jsonNode.loaded
    /\ timeoutRef' = <<>>
    /\ currentOperationRef' = 0
    /\ currentSearchRef' = 0
    /\ jsonNode' = [loaded |-> FALSE, expandedFor |-> {}, expandedResults |-> {}]
    /\ searchQuery' = [searchQuery EXCEPT !.text = <<>>]
    /\ searchResults' = <<>>
    /\ isSearching' = FALSE
    /\ searchProgress' = 0
    /\ applied' = 0
    /\ UNCHANGED <<doc, nextId, searches, idleQueue, superseded>>

\* A step of the orchestrator leaves the rest of the application alone.
OrchOnly == UNCHANGED <<mgrVars, wkVars, lazyVars, viewVars>>

NextOrch ==
    \/ \E q \in Queries : SearchJson(q) /\ OrchOnly
    \/ DebounceFire /\ OrchOnly
    \/ \E sid \in DOMAIN searches : StreamResult(sid) /\ OrchOnly
    \/ \E sid \in DOMAIN searches : SearchProgress(sid) /\ OrchOnly
    \/ \E sid \in DOMAIN searches : AsyncDone(sid) /\ OrchOnly
    \/ \E sid \in DOMAIN searches : WorkerDone(sid) /\ OrchOnly
    \/ \E sid \in DOMAIN searches : WorkerRejected(sid) /\ OrchOnly
    \/ IdleExpand /\ OrchOnly
    \/ ClearData /\ OrchOnly

\* The orchestrator at rest, for the specifications of the other parts.
OrchIdle ==
    /\ doc = [len |-> 100, totalValues |-> 10]
    /\ jsonNode = [loaded |-> FALSE, expandedFor |-> {}, expandedResults |-> {}]
    /\ searchQuery = [no |-> 0, text |-> <<>>]
    /\ searchResults = <<>>
    /\ searchProgress = 0
    /\ isSearching = FALSE
    /\ currentSearchRef = 0
    /\ timeoutRef = <<>>
    /\ currentOperationRef = 0
    /\ nextId = 1
    /\ searches = <<>>
    /\ idleQueue = <<>>
    /\ superseded = {}
    /\ applied = 0

(***************************************************************************)
(* Part C.  JSON values, the tree builders and the worker's searches       *)
(***************************************************************************)
MaxMessages == 2       \* messages the worker receives in one run
MaxJsonPathHits == 2   \* results the JSONPath library returns

\* JSON values as JSON.parse returns them.  kids holds the entries of an
\* object (key and value) or the items of an array, in Object.entries order.
JNumber(n) == [type |-> "number", num |-> n, str |-> <<>>, kids |-> <<>>]
JString(str) == [type |-> "string", num |-> 0, str |-> str, kids |-> <<>>]
JNull == [type |-> "null", num |-> 0, str |-> <<>>, kids |-> <<>>]
JBoolean(b) ==
    [type |-> "boolean", num |-> IF b THEN 1 ELSE 0, str |-> <<>>, kids |-> <<>>]
JObject(entries) == [type |-> "object", num |-> 0, str |-> <<>>, kids |-> entries]
JArray(items) ==
    [type |-> "array", num |-> 0, str |-> <<>>,
     kids |-> [i \in 1..Len(items) |-> [k |-> <<>>, v |-> items[i]]]]

Entry(key, value) == [k |-> key, v |-> value]

\* The documents of the bounded model.
JsonValues ==
    { JNumber(1),
      JObject(<<Entry(<<"a">>, JString(<<"A">>))>>),
      JObject(<<Entry(<<>>, JNumber(1))>>),
      JObject(<<Entry(<<"a", ".", "b">>, JNumber(1)),
                Entry(<<"a">>, JObject(<<Entry(<<"b">>, JNumber(1))>>))>>),
      JArray(<<JNumber(1), JNull>>),
      JObject(<<Entry(<<"a">>, JObject(<<Entry(<<"a">>, JNumber(1))>>)),
                Entry(<<"b">>, JString(<<"a">>))>>),
      JObject(<<Entry(<<"b">>, JString(<<"$", ".", "a">>))>>),
      JObject(<<Entry(<<"a">>, JString(<<"a">>)),
                Entry(<<"a", "b">>, JString(<<"a">>)),
                Entry(<<"b">>, JString(<<"a">>)),
                Entry(<<"b", "a">>, JString(<<"b", "a">>))>>) }

\* The queries of the bounded model.
WorkerQueries == { <<"1">>, <<"a">>, <<" ">>, <<"$", ".", "a">> }

Digit(d) == <<"0", "1", "2", "3", "4", "5", "6", "7", "8", "9">>[d + 1]

\* Number.prototype.toString / String(number) for naturals
RECURSIVE NumToStr(_)
NumToStr(n) ==
    IF n < 10 THEN <<Digit(n)>> ELSE NumToStr(n \div 10) \o <<Digit(n % 10)>>

\* String.prototype.toLowerCase
LowerChar(ch) ==
    CASE ch = "A" -> "a"
      [] ch = "B" -> "b"
      [] OTHER -> ch

ToLowerCase(str) == [i \in 1..Len(str) |-> LowerChar(str[i])]

\* Array.prototype.join
RECURSIVE Join(_, _)
Join(strs, sep) ==
    IF strs = <<>> THEN <<>>
    ELSE IF Len(strs) = 1 THEN strs[1]
    ELSE strs[1] \o sep \o Join(Tail(strs), sep)

\* String(value) of a primitive
StringOf(value) ==
    CASE value.type = "number" -> NumToStr(value.num)
      [] value.type = "string" -> value.str
      [] value.type = "null" -> <<"n", "u", "l", "l">>
      [] value.type = "boolean" ->
           IF value.num = 1 THEN <<"t", "r", "u", "e">> ELSE <<"f", "a", "l", "s", "e">>
      [] OTHER -> <<>>

\* getJsonNodeType
GetJsonNodeType(value) ==
    IF value.type = "null" THEN "null"
    ELSE IF value.type = "array" THEN "array"
    ELSE IF value.type = "object" THEN "object"
    ELSE value.type

\* An optional key: <<>> when undefined, <<k>> otherwise.  JavaScript takes
\* `key ? a : b` to b for undefined and for the empty string.
Truthy(key) == key # <<>> /\ key[1] # <<>>

\* createJsonNode(value, key, path, depth, parent, index).  children is <<>>
\* when the field is absent and <<list>> when it is set.
RECURSIVE CreateJsonNode(_, _, _, _, _)
CreateJsonNode(value, key, path, depth, index) ==
    LET type == GetJsonNodeType(value)
        nodePath == IF Truthy(key) THEN Append(path, key[1]) ELSE path
        node == [key |-> key, value |-> value, type |-> type, path |-> nodePath,
                 depth |-> depth, index |-> index, isExpanded |-> depth < 2,
                 children |-> <<>>]
    IN IF type = "object" THEN
           [node EXCEPT !.children =
               <<[i \in 1..Len(value.kids) |->
                    CreateJsonNode(value.kids[i].v, <<value.kids[i].k>>, nodePath,
                                   depth + 1, <<i - 1>>)]>>]
       ELSE IF type = "array" THEN
           [node EXCEPT !.children =
               <<[i \in 1..Len(value.kids) |->
                    CreateJsonNode(value.kids[i].v, <<NumToStr(i - 1)>>, nodePath,
                                   depth + 1, <<i - 1>>)]>>]
       ELSE node

ProgressMsg(msgId, progress) ==
    [type |-> "PROGRESS", messageId |-> msgId, progress |-> progress,
     result |-> <<>>, isComplete |-> FALSE, results |-> <<>>, node |-> <<>>]

\* Math.round of the quotient a / b of naturals
Round(a, b) == (2 * a + b) \div (2 * b)

\* createJsonNodeWithProgress(value, messageId, key, path, depth, parent, index):
\* the node it returns ...
RECURSIVE CreateJsonNodeWithProgress(_, _, _, _, _, _)
CreateJsonNodeWithProgress(value, msgId, key, path, depth, index) ==
    LET type == GetJsonNodeType(value)
        nodePath == IF Truthy(key) THEN Append(path, key[1]) ELSE path
        node == [key |-> key, value |-> value, type |-> type, path |-> nodePath,
                 depth |-> depth, index |-> index, isExpanded |-> depth < 2,
                 children |-> <<>>]
    IN IF type = "object" THEN
           [node EXCEPT !.children =
               <<[i \in 1..Len(value.kids) |->
                    CreateJsonNodeWithProgress(value.kids[i].v, msgId,
                        <<value.kids[i].k>>, nodePath, depth + 1, <<i - 1>>)]>>]
       ELSE IF type = "array" THEN
           [node EXCEPT !.children =
               <<[i \in 1..Len(value.kids) |->
                    CreateJsonNodeWithProgress(value.kids[i].v, msgId,
                        <<NumToStr(i - 1)>>, nodePath, depth + 1, <<i - 1>>)]>>]
       ELSE node

\* ... and the PROGRESS messages it posts on the way, in order.
RECURSIVE BuildProgress(_, _)
RECURSIVE BuildProgressFrom(_, _, _)
BuildProgressFrom(value, msgId, i) ==
    IF i >= Len(value.kids) THEN <<>>
    ELSE BuildProgress(value.kids[i + 1].v, msgId)
         \o (IF Len(value.kids) > 1000 /\ i % 500 = 0
             THEN <<ProgressMsg(msgId, 30 + Round(i * 60, Len(value.kids)))>>
             ELSE <<>>)
         \o BuildProgressFrom(value, msgId, i + 1)

BuildProgress(value, msgId) ==
    IF GetJsonNodeType(value) \in {"object", "array"}
    THEN BuildProgressFrom(value, msgId, 0)
    ELSE <<>>

(***************************************************************************)
(* The worker's message handlers                                           *)
(***************************************************************************)
ParseErrorMsg(msgId) ==
    [type |-> "PARSE_JSON_ERROR", messageId |-> msgId, progress |-> 0,
     result |-> <<>>, isComplete |-> FALSE, results |-> <<>>, node |-> <<>>]

ParseSuccessMsg(msgId, node) ==
    [type |-> "PARSE_JSON_SUCCESS", messageId |-> msgId, progress |-> 0,
     result |-> <<>>, isComplete |-> FALSE, results |-> <<>>, node |-> <<node>>]

\* handleParseJson(jsonString, messageId): the messages it posts
HandleParseJson(msgId) ==
    <<ProgressMsg(msgId, 10)>>
    \o (IF ~input.parsed
        THEN <<ParseErrorMsg(msgId)>>
        ELSE <<ProgressMsg(msgId, 30)>>
             \o BuildProgress(input.data, msgId)
             \o <<ProgressMsg(msgId, 100),
                  ParseSuccessMsg(msgId,
                      CreateJsonNodeWithProgress(input.data, msgId, <<>>, <<>>, 0, <<>>))>>)

\* The cap on the results of a search.  The program's value is 1000
\* (json-worker.ts:458 and 645, json-utils.ts:313 and 477); the model scales it
\* down so that the bounded documents reach it.
maxResults == 6

\* Program constants of the searches.
streamBatchSize == 5
RegularChunkSize == 2000
StreamChunkSize == 100
RegularCountCap == 50000

\* checkJSONPathSyntax, for expressions without quotes and filters: the
\* brackets are counted from left to right; -1 stands for the break at an
\* unmatched closing bracket.
RECURSIVE BracketCount(_, _, _)
BracketCount(expression, i, bracketCount) ==
    IF i > Len(expression) THEN bracketCount
    ELSE IF expression[i] = "[" THEN BracketCount(expression, i + 1, bracketCount + 1)
    ELSE IF expression[i] = "]"
         THEN IF bracketCount - 1 < 0 THEN -1
              ELSE BracketCount(expression, i + 1, bracketCount - 1)
    ELSE BracketCount(expression, i + 1, bracketCount)

\* checkJSONPathSyntax(expression).length > 0
HasSyntaxErrors(expression) == BracketCount(expression, 1, 0) # 0

\* isIncompleteExpression, for expressions without quotes and filters: an
\* opening bracket that no closing bracket follows, or a trailing dot.
IsIncompleteExpression(expression) ==
    \/ \E i \in DOMAIN expression :
          /\ expression[i] = "["
          /\ \A j \in (i + 1)..Len(expression) : expression[j] # "]"
    \/ expression # <<>> /\ expression[Len(expression)] = "."

\* isValidJSONPath(expression) = validateJSONPath(expression).isValid.  The
\* library parses every expression of the model that passes the checks before it.
IsValidJSONPath(expression) ==
    LET trimmed == Trim(expression)
    IN IF trimmed = <<>> THEN FALSE
       ELSE IF ~StartsWith(trimmed, <<"$">>) THEN FALSE
       ELSE IF trimmed = <<"$">> THEN TRUE
       ELSE IF HasSyntaxErrors(trimmed) THEN FALSE
       ELSE IF IsIncompleteExpression(trimmed) THEN FALSE
       ELSE TRUE

SearchResult(node, matchType) ==
    [path |-> node.path, key |-> node.key, value |-> node.value,
     type |-> node.type, matchType |-> matchType]

ResultsMsg(msgId, results) ==
    [type |-> "SEARCH_RESULTS", messageId |-> msgId, progress |-> 0,
     result |-> <<>>, isComplete |-> FALSE, results |-> results, node |-> <<>>]

\* A SEARCH_RESULT_STREAM message; result is <<>> when the payload has none.
StreamMsg(msgId, result, isComplete) ==
    [type |-> "SEARCH_RESULT_STREAM", messageId |-> msgId, progress |-> 0,
     result |-> result, isComplete |-> isComplete, results |-> <<>>, node |-> <<>>]

ChildrenOf(node) == IF node.children = <<>> THEN <<>> ELSE node.children[1]

\* countNodes(currentNode, maxCount) of handleRegularSearch
RECURSIVE CountNodesCapped(_, _)
RECURSIVE CountChildrenCapped(_, _, _, _)
CountChildrenCapped(children, i, count, maxCount) ==
    IF i > Len(children) THEN count
    ELSE LET c == count + CountNodesCapped(children[i], maxCount - count)
         IN IF c >= maxCount THEN c
            ELSE CountChildrenCapped(children, i + 1, c, maxCount)

CountNodesCapped(node, maxCount) ==
    IF 1 >= maxCount THEN maxCount
    ELSE Min(CountChildrenCapped(ChildrenOf(node), 1, 1, maxCount), maxCount)

\* countNodes(currentNode) of handleRegularSearchStream
RECURSIVE CountNodes(_)
RECURSIVE CountNodesFrom(_, _)
CountNodesFrom(children, i) ==
    IF i > Len(children) THEN 0
    ELSE CountNodes(children[i]) + CountNodesFrom(children, i + 1)

CountNodes(node) == 1 + CountNodesFrom(ChildrenOf(node), 1)

KeyMatches(node, normalizedQuery) ==
    Truthy(node.key) /\ Includes(ToLowerCase(node.key[1]), normalizedQuery)

ValueMatches(node, normalizedQuery) ==
    /\ node.type # "object"
    /\ node.type # "array"
    /\ Includes(ToLowerCase(StringOf(node.value)), normalizedQuery)

\* The progress both searches report after a chunk.
SearchProgressOf(st) ==
    IF st.totalNodes > 0
    THEN Min(100, Round(st.processedNodes * 100, st.totalNodes))
    ELSE 100

\* The closure of one search: the locals of handleRegularSearch or of
\* handleRegularSearchStream, and the messages the running call has posted.
NewSearch(kind, node, query, msgId, totalNodes) ==
    [kind |-> kind, messageId |-> msgId, normalizedQuery |-> ToLowerCase(query),
     nodesToProcess |-> <<node>>, processedPaths |-> {}, processedNodes |-> 0,
     totalNodes |-> totalNodes, results |-> <<>>, foundResults |-> 0,
     resultBatch |-> <<>>, out |-> <<>>, pending |-> FALSE]

\* The for loop of handleRegularSearch.processChunk
RECURSIVE RegularLoop(_, _, _)
RegularLoop(st, i, endIndex) ==
    IF i >= endIndex \/ Len(st.results) >= maxResults THEN st
    ELSE
        LET currentNode == Head(st.nodesToProcess)
            rest == Tail(st.nodesToProcess)
            pathKey == Join(currentNode.path, <<".">>)
        IN IF pathKey \in st.processedPaths
           THEN RegularLoop([st EXCEPT !.nodesToProcess = rest], i + 1, endIndex)
           ELSE
               LET st1 == [st EXCEPT !.nodesToProcess = rest,
                                     !.processedPaths = @ \cup {pathKey},
                                     !.processedNodes = @ + 1]
                   keyHit == KeyMatches(currentNode, st.normalizedQuery)
                   r1 == IF keyHit
                         THEN Append(st.results, SearchResult(currentNode, "key"))
                         ELSE st.results
                   valueHit == ValueMatches(currentNode, st.normalizedQuery)
                   r2 == IF valueHit
                         THEN Append(r1, SearchResult(currentNode, "value"))
                         ELSE r1
               IN IF keyHit /\ Len(r1) >= maxResults
                  THEN [st1 EXCEPT !.results = r1]
                  ELSE IF valueHit /\ Len(r2) >= maxResults
                  THEN [st1 EXCEPT !.results = r2]
                  ELSE RegularLoop(
                           [st1 EXCEPT !.results = r2,
                                       !.nodesToProcess = rest \o ChildrenOf(currentNode)],
                           i + 1, endIndex)

\* handleRegularSearch.processChunk
RegularChunk(st) ==
    LET endIndex == Min(RegularChunkSize, Len(st.nodesToProcess))
        s1 == RegularLoop([st EXCEPT !.out = <<>>], 0, endIndex)
        s2 == IF \/ s1.processedNodes % 2000 = 0
                 \/ s1.nodesToProcess = <<>>
                 \/ Len(s1.results) >= maxResults
              THEN [s1 EXCEPT !.out = Append(@, ProgressMsg(s1.messageId,
                                                            SearchProgressOf(s1)))]
              ELSE s1
    IN IF s2.nodesToProcess # <<>> /\ Len(s2.results) < maxResults
       THEN [s2 EXCEPT !.pending = TRUE]
       ELSE [s2 EXCEPT !.pending = FALSE,
                       !.out = Append(@, ResultsMsg(s2.messageId, s2.results))]

\* handleRegularSearch(node, query, messageId)
HandleRegularSearch(node, query, msgId) ==
    IF Trim(query) = <<>>
    THEN [NewSearch("regular", node, query, msgId, 0)
             EXCEPT !.out = <<ResultsMsg(msgId, <<>>)>>]
    ELSE RegularChunk(NewSearch("regular", node, query, msgId,
                                CountNodesCapped(node, RegularCountCap)))

\* streamBatch() of handleRegularSearchStream
StreamBatch(st) ==
    [st EXCEPT !.out = @ \o [k \in 1..Len(st.resultBatch) |->
                                StreamMsg(st.messageId, <<st.resultBatch[k]>>, FALSE)],
               !.resultBatch = <<>>]

\* resultBatch.push(result); foundResults++; and the batch goes out when full
PushResult(st, result) ==
    LET s1 == [st EXCEPT !.resultBatch = Append(@, result), !.foundResults = @ + 1]
    IN IF Len(s1.resultBatch) >= streamBatchSize THEN StreamBatch(s1) ELSE s1

\* The for loop of handleRegularSearchStream.processChunk
RECURSIVE StreamLoop(_, _, _)
StreamLoop(st, i, endIndex) ==
    IF i >= endIndex \/ st.foundResults >= maxResults THEN st
    ELSE
        LET currentNode == Head(st.nodesToProcess)
            s0 == [st EXCEPT !.nodesToProcess = Tail(@), !.processedNodes = @ + 1]
            s1 == IF KeyMatches(currentNode, st.normalizedQuery)
                  THEN PushResult(s0, SearchResult(currentNode, "key"))
                  ELSE s0
            s2 == IF ValueMatches(currentNode, st.normalizedQuery)
                  THEN PushResult(s1, SearchResult(currentNode, "value"))
                  ELSE s1
        IN StreamLoop([s2 EXCEPT !.nodesToProcess = @ \o ChildrenOf(currentNode)],
                      i + 1, endIndex)

\* handleRegularSearchStream.processChunk
StreamChunk(st) ==
    LET endIndex == Min(StreamChunkSize, Len(st.nodesToProcess))
        s1 == StreamLoop([st EXCEPT !.out = <<>>], 0, endIndex)
        s2 == IF s1.processedNodes % 1000 = 0 \/ s1.nodesToProcess = <<>>
              THEN [s1 EXCEPT !.out = Append(@, ProgressMsg(s1.messageId,
                                                            SearchProgressOf(s1)))]
              ELSE s1
    IN IF s2.nodesToProcess # <<>> /\ s2.foundResults < maxResults
       THEN [s2 EXCEPT !.pending = TRUE]
       ELSE LET s3 == StreamBatch(s2)
            IN [s3 EXCEPT !.pending = FALSE,
                          !.out = Append(@, StreamMsg(s3.messageId, <<>>, TRUE))]

\* handleRegularSearchStream(node, query, messageId)
HandleRegularSearchStream(node, query, msgId) ==
    StreamChunk(NewSearch("stream", node, query, msgId, CountNodes(node)))

\* Breadth-first list of the nodes of a tree.
RECURSIVE Bfs(_)
Bfs(queue) ==
    IF queue = <<>> THEN <<>>
    ELSE <<Head(queue)>> \o Bfs(Tail(queue) \o ChildrenOf(Head(queue)))

\* searchWithJSONPath(node, query, onProgress): the results it resolves with.
\* Which nodes the library selects is not the repository's code; the answer is
\* the first jsonPathLib.count nodes of the tree.
JsonPathResults(node) ==
    LET nodes == Bfs(<<node>>)
        n == Min(Min(jsonPathLib.count, maxResults), Len(nodes))
    IN [k \in 1..n |-> SearchResult(nodes[k], "jsonpath")]

\* The PROGRESS messages of searchWithJSONPath's onProgress calls.
JsonPathProgress(msgId) ==
    IF jsonPathLib.throws
    THEN <<ProgressMsg(msgId, 10), ProgressMsg(msgId, 30), ProgressMsg(msgId, 60),
           ProgressMsg(msgId, 100)>>
    ELSE <<ProgressMsg(msgId, 10), ProgressMsg(msgId, 30), ProgressMsg(msgId, 60),
           ProgressMsg(msgId, 80), ProgressMsg(msgId, 100)>>

\* A .then callback that forgets the completion of an empty answer.
StreamJsonPathResultsBare(results, msgId) ==
    [k \in 1..Len(results) |-> StreamMsg(msgId, <<results[k]>>, k = Len(results))]

\* The .then callback of handleSearchStream: one message per result, the last
\* one complete, and a bare completion when there is no result.
StreamJsonPathResults(results, msgId) ==
    [k \in 1..Len(results) |-> StreamMsg(msgId, <<results[k]>>, k = Len(results))]
    \o (IF Len(results) = 0 THEN <<StreamMsg(msgId, <<>>, TRUE)>> ELSE <<>>)

\* Puts msgs in front of what a search has posted.
After(msgs, st) == [st EXCEPT !.out = msgs \o @]

\* handleSearch(node, query, messageId), with the promise callbacks that run
\* as microtasks of the same task
HandleSearch(node, query, msgId) ==
    IF IsValidJSONPath(query) THEN
        LET before == <<ProgressMsg(msgId, 10)>> \o JsonPathProgress(msgId)
        IN IF jsonPathLib.throws
           THEN After(before, HandleRegularSearch(node, query, msgId))
           ELSE [NewSearch("regular", node, query, msgId, 0)
                    EXCEPT !.out = Append(before,
                                          ResultsMsg(msgId, JsonPathResults(node)))]
    ELSE HandleRegularSearch(node, query, msgId)

\* handleSearchStream(node, query, messageId), likewise
HandleSearchStream(node, query, msgId) ==
    IF IsValidJSONPath(query) THEN
        LET before == <<ProgressMsg(msgId, 10)>> \o JsonPathProgress(msgId)
        IN IF jsonPathLib.throws
           THEN After(before, HandleRegularSearchStream(node, query, msgId))
           ELSE [NewSearch("stream", node, query, msgId, 0)
                    EXCEPT !.out = before \o
                               StreamJsonPathResults(JsonPathResults(node), msgId)]
    ELSE HandleRegularSearchStream(node, query, msgId)

\* handleSearchRawJsonStream(jsonString, query, messageId)
HandleSearchRawJsonStream(query, msgId) ==
    IF ~input.parsed
    THEN [NewSearch("stream", <<>>, query, msgId, 0)
             EXCEPT !.nodesToProcess = <<>>,
                    !.out = <<ProgressMsg(msgId, 5), StreamMsg(msgId, <<>>, TRUE)>>]
    ELSE After(<<ProgressMsg(msgId, 5), ProgressMsg(msgId, 20)>>
               \o BuildProgress(input.data, msgId)
               \o <<ProgressMsg(msgId, 50)>>,
               HandleSearchStream(
                   CreateJsonNodeWithProgress(input.data, msgId, <<>>, <<>>, 0, <<>>),
                   query, msgId))

\* The worker at rest, for the specifications of the other parts.
WorkerIdle ==
    /\ input = [parsed |-> FALSE, data |-> JNull, query |-> <<>>]
    /\ jsonPathLib = [throws |-> FALSE, count |-> 0]
    /\ tree = <<>>
    /\ jobs = <<>>
    /\ outbox = <<>>
    /\ received = <<>>
    /\ asyncJob = <<>>
    /\ threadResults = <<>>

\* useJsonViewer.parseJson, main-thread branch: parseJsonSafely and createJsonNode
ParseInThread ==
    /\ tree = <<>>
    /\ input.parsed
    /\ tree' = <<CreateJsonNode(input.data, <<>>, <<>>, 0, <<>>)>>
    /\ UNCHANGED <<input, jsonPathLib, jobs, outbox, received, threadVars>>

\* useJsonViewer.parseJson, worker branch: the worker handles PARSE_JSON and the
\* main thread keeps the node of PARSE_JSON_SUCCESS
ParseInWorker ==
    /\ tree = <<>>
    /\ Len(received) < MaxMessages
    /\ received' = Append(received, "PARSE_JSON")
    /\ LET msgs == HandleParseJson(Len(received) + 1)
           last == msgs[Len(msgs)]
       IN /\ outbox' = outbox \o msgs
          /\ tree' = IF last.type = "PARSE_JSON_SUCCESS" THEN last.node ELSE tree
    /\ UNCHANGED <<input, jsonPathLib, jobs, threadVars>>

\* The texts and queries one run of the worker is given.
InitWorker ==
    /\ input \in
         [parsed : {TRUE}, data : JsonValues, query : WorkerQueries]
         \cup [parsed : {FALSE}, data : {JNull}, query : {<<"a">>}]
    /\ jsonPathLib \in
         IF input.parsed /\ IsValidJSONPath(input.query)
         THEN [throws : {FALSE}, count : 0..MaxJsonPathHits]
              \cup [throws : {TRUE}, count : {0}]
         ELSE {[throws |-> FALSE, count |-> 0]}
    /\ tree = <<>>
    /\ jobs = <<>>
    /\ outbox = <<>>
    /\ received = <<>>
    /\ asyncJob = <<>>
    /\ threadResults = <<>>

SearchTypes == {"SEARCH", "SEARCH_STREAM", "SEARCH_RAW_JSON_STREAM"}

\* self.onmessage for a search request, up to the end of its task: the handler
\* and the promise callbacks it leaves behind.
OnMessage(type) ==
    /\ Len(received) < MaxMessages
    /\ type \in {"SEARCH", "SEARCH_STREAM"} => tree # <<>>
    /\ LET msgId == Len(received) + 1
           st == CASE type = "SEARCH" -> HandleSearch(tree[1], input.query, msgId)
                   [] type = "SEARCH_STREAM" ->
                          HandleSearchStream(tree[1], input.query, msgId)
                   [] type = "SEARCH_RAW_JSON_STREAM" ->
                          HandleSearchRawJsonStream(input.query, msgId)
       IN /\ received' = Append(received, type)
          /\ outbox' = outbox \o st.out
          /\ jobs' = IF st.pending THEN Put(jobs, msgId, [st EXCEPT !.out = <<>>]) ELSE jobs
    /\ UNCHANGED <<input, jsonPathLib, tree, threadVars>>

\* The timer set by setTimeout(processChunk, 1) fires.
ChunkTimer(id) ==
    /\ LET st == IF jobs[id].kind = "regular"
                 THEN RegularChunk(jobs[id])
                 ELSE StreamChunk(jobs[id])
       IN /\ outbox' = outbox \o st.out
          /\ jobs' = IF st.pending
                     THEN [jobs EXCEPT ![id] = [st EXCEPT !.out = <<>>]]
                     ELSE Remove(jobs, id)
    /\ UNCHANGED <<input, jsonPathLib, tree, received, threadVars>>

(***************************************************************************)
(* The main-thread searches of json-utils.ts                               *)
(***************************************************************************)
MaxThreadSearches == 2   \* main-thread searches in one run

AsyncChunkSize == 500

\* searchInJson: traverse(currentNode), the results it pushes in order
RECURSIVE Traverse(_, _)
RECURSIVE TraverseFrom(_, _, _)
TraverseFrom(children, i, normalizedQuery) ==
    IF i > Len(children) THEN <<>>
    ELSE Traverse(children[i], normalizedQuery)
         \o TraverseFrom(children, i + 1, normalizedQuery)

Traverse(currentNode, normalizedQuery) ==
    (IF KeyMatches(currentNode, normalizedQuery)
     THEN <<SearchResult(currentNode, "key")>> ELSE <<>>)
    \o (IF ValueMatches(currentNode, normalizedQuery)
        THEN <<SearchResult(currentNode, "value")>> ELSE <<>>)
    \o TraverseFrom(ChildrenOf(currentNode), 1, normalizedQuery)

\* searchInJson(node, query)
SearchInJson(node, query) == Traverse(node, ToLowerCase(query))

\* The locals of searchInJsonAsync's chunked search; out lists the progress
\* values handed to onProgress.
NewAsyncSearch(node, trimmedQuery) ==
    [normalizedQuery |-> ToLowerCase(trimmedQuery), nodesToProcess |-> <<node>>,
     processedNodes |-> 0, totalNodes |-> CountNodes(node), results |-> <<>>,
     lastProgressReport |-> 0, out |-> <<>>, pending |-> FALSE]

\* The for loop of searchInJsonAsync.processChunk
RECURSIVE AsyncLoop(_, _, _)
AsyncLoop(st, i, endIndex) ==
    IF i >= endIndex \/ Len(st.results) >= maxResults THEN st
    ELSE
        LET currentNode == Head(st.nodesToProcess)
            r1 == IF KeyMatches(currentNode, st.normalizedQuery)
                  THEN Append(st.results, SearchResult(currentNode, "key"))
                  ELSE st.results
            r2 == IF ValueMatches(currentNode, st.normalizedQuery)
                  THEN Append(r1, SearchResult(currentNode, "value"))
                  ELSE r1
        IN AsyncLoop([st EXCEPT !.nodesToProcess = Tail(@) \o ChildrenOf(currentNode),
                                !.processedNodes = @ + 1,
                                !.results = r2],
                     i + 1, endIndex)

\* searchInJsonAsync.processChunk
AsyncChunk(st) ==
    LET endIndex == Min(AsyncChunkSize, Len(st.nodesToProcess))
        s1 == AsyncLoop(st, 0, endIndex)
        progress == Min(100, Round(s1.processedNodes * 100, s1.totalNodes))
        s2 == IF /\ s1.totalNodes > 0
                 /\ \/ progress >= s1.lastProgressReport + 5
                    \/ progress = 100
                    \/ (Len(s1.results) = 1 /\ s1.lastProgressReport = 0)
                    \/ s1.processedNodes = 1
              THEN [s1 EXCEPT !.out = Append(@, progress),
                              !.lastProgressReport = progress]
              ELSE s1
    IN IF s2.nodesToProcess # <<>> /\ Len(s2.results) < maxResults
       THEN [s2 EXCEPT !.pending = TRUE]
       ELSE [s2 EXCEPT !.pending = FALSE, !.out = Append(@, 100)]

\* searchInJsonAsync(node, query, onProgress), up to its first timer
SearchInJsonAsync(node, query) ==
    LET trimmedQuery == Trim(query)
    IN IF StartsWith(trimmedQuery, <<"$">>) /\ IsValidJSONPath(trimmedQuery) THEN
           IF jsonPathLib.throws
           THEN [NewAsyncSearch(node, trimmedQuery)
                    EXCEPT !.out = <<10, 30, 60, 100>>, !.results = <<>>]
           ELSE [NewAsyncSearch(node, trimmedQuery)
                    EXCEPT !.out = <<10, 30, 60, 80, 100>>,
                           !.results = JsonPathResults(node)]
       ELSE AsyncChunk(NewAsyncSearch(node, trimmedQuery))

ThreadResult(via, st) ==
    [via |-> via, results |-> st.results, progress |-> st.out]

\* performSearch, synchronous branch: searchInJson(jsonNode, query)
SearchSync ==
    /\ tree # <<>>
    /\ Len(threadResults) < MaxThreadSearches
    /\ threadResults' = Append(threadResults,
           [via |-> "sync", results |-> SearchInJson(tree[1], input.query),
            progress |-> <<>>])
    /\ UNCHANGED <<input, jsonPathLib, tree, jobs, outbox, received, asyncJob>>

\* performSearch, chunked branch: searchInJsonAsync(jsonNode, query, onProgress)
SearchAsync ==
    /\ tree # <<>>
    /\ asyncJob = <<>>
    /\ Len(threadResults) < MaxThreadSearches
    /\ LET st == SearchInJsonAsync(tree[1], input.query)
       IN IF st.pending
          THEN /\ asyncJob' = <<st>>
               /\ UNCHANGED threadResults
          ELSE /\ threadResults' = Append(threadResults, ThreadResult("async", st))
               /\ UNCHANGED asyncJob
    /\ UNCHANGED <<input, jsonPathLib, tree, jobs, outbox, received>>

\* The timer set by setTimeout(processChunk, 0) of searchInJsonAsync fires.
AsyncTimer ==
    /\ asyncJob # <<>>
    /\ LET st == AsyncChunk(asyncJob[1])
       IN IF st.pending
          THEN /\ asyncJob' = <<st>>
               /\ UNCHANGED threadResults
          ELSE /\ asyncJob' = <<>>
               /\ threadResults' = Append(threadResults, ThreadResult("async", st))
    /\ UNCHANGED <<input, jsonPathLib, tree, jobs, outbox, received>>

\* getValueAtPath(node, path): <<>> for null, <<n>> for the node found
RECURSIVE GetValueAtPath(_, _)
GetValueAtPath(node, path) ==
    IF path = <<>> THEN <<node>>
    ELSE IF node.children = <<>> THEN <<>>
    ELSE LET found == {k \in 1..Len(ChildrenOf(node)) :
                          ChildrenOf(node)[k].key = <<Head(path)>>}
         IN IF found = {} THEN <<>>
            ELSE GetValueAtPath(
                     ChildrenOf(node)[CHOOSE k \in found : \A m \in found : k <= m],
                     Tail(path))

\* A step of the worker or of a builder leaves the rest of the application alone.
WorkerOnly == UNCHANGED <<mgrVars, orchVars, lazyVars, viewVars>>

NextWorker ==
    \/ ParseInThread /\ WorkerOnly
    \/ ParseInWorker /\ WorkerOnly
    \/ \E type \in SearchTypes : OnMessage(type) /\ WorkerOnly
    \/ \E id \in DOMAIN jobs : ChunkTimer(id) /\ WorkerOnly
    \/ SearchSync /\ WorkerOnly
    \/ SearchAsync /\ WorkerOnly
    \/ AsyncTimer /\ WorkerOnly

(***************************************************************************)
(* Part D.  The metadata cache of the manager (LRUCache, parseJson)        *)
(***************************************************************************)
\* The capacity of the cache.  The program's value is 10 (part_001:204); the
\* model scales it down.
CacheMaxSize == 3
MaxClock == 300001     \* the clock of the cache stops here, in milliseconds
MidLen == 6000000      \* a text the hook hands to the worker and parseJson caches

CacheMaxAge == 300000
KeyPrefixLength == 100
WorkerThreshold == 5000000
MetadataThreshold == 10000000

\* JSON.stringify(value)
RECURSIVE Stringify(_)
Stringify(value) ==
    CASE value.type = "number" -> NumToStr(value.num)
      [] value.type = "string" -> <<"\"">> \o value.str \o <<"\"">>
      [] value.type = "null" -> <<"n", "u", "l", "l">>
      [] value.type = "boolean" ->
           IF value.num = 1 THEN <<"t", "r", "u", "e">> ELSE <<"f", "a", "l", "s", "e">>
      [] value.type = "array" ->
           <<"[">>
           \o Join([i \in 1..Len(value.kids) |-> Stringify(value.kids[i].v)], <<",">>)
           \o <<"]">>
      [] value.type = "object" ->
           <<"{">>
           \o Join([i \in 1..Len(value.kids) |->
                       <<"\"">> \o value.kids[i].k \o <<"\"", ":">>
                       \o Stringify(value.kids[i].v)], <<",">>)
           \o <<"}">>

\* A JSON text of `length` characters: JSON.stringify(value) followed by
\* spaces.  JSON.parse of it is value.
JsonText(value, length) == [value |-> value, length |-> length]

\* jsonString.substring(0, n)
Substring(jsonString, n) ==
    LET text == Stringify(jsonString.value)
    IN [i \in 1..Min(n, jsonString.length) |->
           IF i <= Len(text) THEN text[i] ELSE " "]

\* `parse_${jsonString.substring(0, 100)}_${jsonString.length}`
CacheKey(jsonString) ==
    <<"p", "a", "r", "s", "e", "_">>
    \o Substring(jsonString, KeyPrefixLength)
    \o <<"_">> \o NumToStr(jsonString.length)

Ones(n) == [i \in 1..n |-> JNumber(1)]

\* The texts of the bounded model.  The last two are arrays of 52 and of 51
\* numbers whose texts agree on their first 102 characters.
CacheDocuments ==
    << JsonText(JNumber(1), MidLen),
       JsonText(JArray(<<JNumber(1)>>), MidLen),
       JsonText(JNull, MidLen),
       JsonText(JArray(Ones(52)), MidLen),
       JsonText(JArray(Ones(50) \o <<JNumber(111)>>), MidLen) >>

\* Map.prototype.delete of the entry at position i
DeleteAt(cache, i) == SubSeq(cache, 1, i - 1) \o SubSeq(cache, i + 1, Len(cache))

PositionOf(cache, key) == {i \in 1..Len(cache) : cache[i].key = key}

\* LRUCache.get(key) at time t: the cache it leaves and the value it returns
\* (<<>> for null)
LRUGet(cache, key, t) ==
    IF PositionOf(cache, key) = {} THEN [cache |-> cache, value |-> <<>>]
    ELSE LET i == CHOOSE k \in PositionOf(cache, key) : TRUE
             item == cache[i]
         IN IF t - item.timestamp > CacheMaxAge
            THEN [cache |-> DeleteAt(cache, i), value |-> <<>>]
            ELSE [cache |-> Append(DeleteAt(cache, i), [item EXCEPT !.timestamp = t]),
                  value |-> <<item.value>>]

\* LRUCache.set(key, value) at time t.  Map.prototype.set of a key that is
\* present replaces the value and leaves the entry where it is.
LRUSet(cache, key, value, t) ==
    LET kept == IF Len(cache) >= CacheMaxSize /\ cache # <<>> /\ cache[1].key # <<>>
                THEN Tail(cache)
                ELSE cache
        entry == [key |-> key, value |-> value, timestamp |-> t]
    IN IF PositionOf(kept, key) = {} THEN Append(kept, entry)
       ELSE [kept EXCEPT ![CHOOSE k \in PositionOf(kept, key) : TRUE] = entry]

\* JsonWorkerManager.extractNodeMetadata(node).  An optional field is <<>> when
\* undefined.
ExtractNodeMetadata(node) ==
    [key |-> node.key, type |-> node.type, path |-> node.path, depth |-> node.depth,
     hasChildren |-> node.children # <<>> /\ Len(node.children[1]) > 0,
     childrenCount |-> IF node.children = <<>> THEN <<>> ELSE <<Len(node.children[1])>>,
     isExpanded |-> node.isExpanded,
     valuePreview |-> IF node.type \notin {"object", "array"}
                      THEN <<SubSeq(StringOf(node.value), 1,
                                    Min(100, Len(StringOf(node.value))))>>
                      ELSE <<>>]

Loading == <<"L", "o", "a", "d", "i", "n", "g", ".", ".", ".">>

ItemKey(i) == <<"i", "t", "e", "m", "_">> \o NumToStr(i)

\* JsonWorkerManager.reconstructNodeFromMetadata(metadata)
ReconstructNodeFromMetadata(metadata) ==
    LET node == [key |-> metadata.key,
                 value |-> IF metadata.valuePreview # <<>> /\ metadata.valuePreview[1] # <<>>
                           THEN JString(metadata.valuePreview[1])
                           ELSE IF metadata.type = "object" THEN JObject(<<>>)
                           ELSE JArray(<<>>),
                 type |-> metadata.type, path |-> metadata.path,
                 depth |-> metadata.depth, index |-> <<>>,
                 isExpanded |-> metadata.isExpanded, children |-> <<>>]
    IN IF metadata.hasChildren /\ metadata.childrenCount # <<>>
          /\ metadata.childrenCount[1] # 0
       THEN [node EXCEPT !.children =
               <<[i \in 1..Min(metadata.childrenCount[1], 100) |->
                    [key |-> <<ItemKey(i - 1)>>, value |-> JString(Loading),
                     type |-> "string", path |-> Append(metadata.path, ItemKey(i - 1)),
                     depth |-> metadata.depth + 1, index |-> <<>>,
                     isExpanded |-> FALSE, children |-> <<>>]]>>]
       ELSE node

\* The node PARSE_JSON_SUCCESS carries for a text
ParsedNode(jsonString) ==
    CreateJsonNodeWithProgress(jsonString.value, 0, <<>>, <<>>, 0, <<>>)

\* The cache key and the parsed node of each text of the model
DocumentKey == [d \in DOMAIN CacheDocuments |-> CacheKey(CacheDocuments[d])]

DocumentNode == [d \in DOMAIN CacheDocuments |-> ParsedNode(CacheDocuments[d])]

\* The number of parseJson calls awaiting the worker
RECURSIVE AwaitingUpTo(_, _)
AwaitingUpTo(calls, d) == IF d = 0 THEN 0 ELSE calls[d] + AwaitingUpTo(calls, d - 1)

Awaiting(calls) == AwaitingUpTo(calls, Len(CacheDocuments))

\* The memory estimates of the parseJson calls awaiting the worker
RECURSIVE AwaitingMemoryUpTo(_, _)
AwaitingMemoryUpTo(calls, d) ==
    IF d = 0 THEN 0
    ELSE calls[d] * EstimateOperationMemory("PARSE_JSON", CacheDocuments[d].length)
         + AwaitingMemoryUpTo(calls, d - 1)

AwaitingMemory(calls) == AwaitingMemoryUpTo(calls, Len(CacheDocuments))

\* useJsonViewer.parseJson -> JsonWorkerManager.parseJson(jsonString), up to its
\* first await: the cache is asked, and a hit returns at once.  A miss posts
\* PARSE_JSON, which canAcceptNewOperation admits while fewer than
\* MAX_CONCURRENT_OPERATIONS operations are in flight and their memory
\* estimates stay within MAX_MEMORY_USAGE.
ParseJson(d) ==
    /\ CacheDocuments[d].length > WorkerThreshold
    /\ CacheDocuments[d].length <= MetadataThreshold
    /\ LET cached == LRUGet(metadataCache, DocumentKey[d], dateNow)
       IN /\ metadataCache' = cached.cache
          /\ IF cached.value # <<>>
             THEN /\ parseReturn' =
                        <<[doc |-> d, hit |-> TRUE,
                           node |-> ReconstructNodeFromMetadata(cached.value[1][1])]>>
                  /\ UNCHANGED parseCalls
             ELSE /\ Awaiting(parseCalls) < MAX_CONCURRENT_OPERATIONS
                  /\ AwaitingMemory(parseCalls)
                        + EstimateOperationMemory("PARSE_JSON", CacheDocuments[d].length)
                     <= MAX_MEMORY_USAGE
                  /\ parseCalls' = [parseCalls EXCEPT ![d] = @ + 1]
                  /\ parseReturn' = <<>>
    /\ UNCHANGED dateNow

\* parseJson resumes with PARSE_JSON_SUCCESS: the metadata of the node is cached
ParseJsonSuccess(d) ==
    /\ parseCalls[d] > 0
    /\ metadataCache' = LRUSet(metadataCache, DocumentKey[d],
                               <<ExtractNodeMetadata(DocumentNode[d])>>, dateNow)
    /\ parseReturn' = <<[doc |-> d, hit |-> FALSE, node |-> DocumentNode[d]]>>
    /\ parseCalls' = [parseCalls EXCEPT ![d] = @ - 1]
    /\ UNCHANGED dateNow

\* parseJson resumes with a rejection of postMessage: nothing is cached
ParseJsonRejected(d) ==
    /\ parseCalls[d] > 0
    /\ parseCalls' = [parseCalls EXCEPT ![d] = @ - 1]
    /\ parseReturn' = <<>>
    /\ UNCHANGED <<metadataCache, dateNow>>

\* clearCache()
ClearCache ==
    /\ metadataCache # <<>>
    /\ metadataCache' = <<>>
    /\ parseReturn' = <<>>
    /\ UNCHANGED <<parseCalls, dateNow>>

\* Time passes
Elapse(ms) ==
    /\ dateNow + ms <= MaxClock
    /\ dateNow' = dateNow + ms
    /\ parseReturn' = <<>>
    /\ UNCHANGED <<metadataCache, parseCalls>>

CacheIdle ==
    /\ metadataCache = <<>>
    /\ parseCalls = [d \in DOMAIN CacheDocuments |-> 0]
    /\ parseReturn = <<>>

StoreIdle ==
    /\ parsedDataIds = <<>>
    /\ workerDataStore = <<>>
    /\ dataTimestamps = <<>>
    /\ lazyRequests = <<>>
    /\ lazyLoads = <<>>
    /\ settled = {}

\* Part D at rest, for the specifications of the other parts.
LazyIdle == CacheIdle /\ StoreIdle /\ dateNow = 0

CacheOnly == UNCHANGED <<mgrVars, orchVars, wkVars, storeVars, viewVars>>

NextCache ==
    \/ \E d \in DOMAIN CacheDocuments : ParseJson(d) /\ CacheOnly
    \/ \E d \in DOMAIN CacheDocuments : ParseJsonSuccess(d) /\ CacheOnly
    \/ \E d \in DOMAIN CacheDocuments : ParseJsonRejected(d) /\ CacheOnly
    \/ ClearCache /\ CacheOnly
    \/ \E ms \in {CacheMaxAge, CacheMaxAge + 1} : Elapse(ms) /\ CacheOnly

(***************************************************************************)
(* Part D.  The worker's data store, lazy loading and the whole protocol   *)
(***************************************************************************)
MaxSweeps == 7         \* firings of the store's cleanup interval in one run

CLEANUP_INTERVAL == 5 * 60 * 1000
DATA_EXPIRY == 30 * 60 * 1000
MetadataMaxDepth == 3
LazyLimit == 100

\* The types of WorkerMessage
MessageTypes ==
    {"PARSE_JSON", "PARSE_JSON_METADATA", "SEARCH", "SEARCH_STREAM", "SEARCH_RAW_JSON",
     "SEARCH_RAW_JSON_STREAM", "CALCULATE_STATS", "EXPAND_NODE", "LAZY_LOAD_CHILDREN"}

\* `data_${messageId}_${Date.now()}`
DataId(msgId, t) ==
    <<"d", "a", "t", "a", "_">> \o NumToStr(msgId) \o <<"_">> \o NumToStr(t)

\* A handle the worker never issued: message ids start at 1.
UnknownDataId == DataId(0, 0)

MetadataSuccessMsg(msgId, metadata, dataId) ==
    [type |-> "PARSE_JSON_METADATA_SUCCESS", messageId |-> msgId,
     metadata |-> metadata, dataId |-> dataId]

ChildrenLoadedMsg(msgId, children) ==
    [type |-> "CHILDREN_LOADED", messageId |-> msgId, children |-> children]

StatsMsg(msgId, stats) ==
    [type |-> "STATS_CALCULATED", messageId |-> msgId, stats |-> stats]

\* The message posted by the catch of self.onmessage
ErrorMsg(msgId) == [type |-> "ERROR", messageId |-> msgId]

\* What a handler leaves behind: the messages posted, the search whose timer
\* is pending (<<>> when none), and the store.
Answer(out) ==
    [out |-> out, job |-> <<>>, store |-> workerDataStore, stamps |-> dataTimestamps]

FromSearch(st) ==
    [Answer(st.out) EXCEPT
        !.job = IF st.pending THEN <<[st EXCEPT !.out = <<>>]>> ELSE <<>>]

\* extractNodeMetadata(node, maxDepth) of the worker
WorkerExtractNodeMetadata(node, maxDepth) ==
    [ExtractNodeMetadata(node) EXCEPT !.isExpanded = node.depth < maxDepth]

\* handleParseJsonMetadata(jsonString, messageId, maxDepth)
HandleParseJsonMetadata(msgId, maxDepth) ==
    IF ~input.parsed
    THEN Answer(<<ProgressMsg(msgId, 10), ParseErrorMsg(msgId)>>)
    ELSE LET node == CreateJsonNodeWithProgress(input.data, msgId, <<>>, <<>>, 0, <<>>)
             dataId == DataId(msgId, dateNow)
         IN [Answer(<<ProgressMsg(msgId, 10), ProgressMsg(msgId, 30)>>
                    \o BuildProgress(input.data, msgId)
                    \o <<ProgressMsg(msgId, 100),
                         MetadataSuccessMsg(msgId,
                             WorkerExtractNodeMetadata(node, maxDepth), dataId)>>)
               EXCEPT !.store = Put(workerDataStore, dataId, node),
                      !.stamps = Put(dataTimestamps, dataId, dateNow)]

\* The loop of handleLazyLoadChildren: <<>> when a segment has no child,
\* <<n>> for the node reached
RECURSIVE LazyNavigate(_, _)
LazyNavigate(currentNode, path) ==
    IF path = <<>> THEN <<currentNode>>
    ELSE LET found == {k \in 1..Len(ChildrenOf(currentNode)) :
                          ChildrenOf(currentNode)[k].key = <<Head(path)>>}
         IN IF found = {} THEN <<>>
            ELSE LazyNavigate(
                     ChildrenOf(currentNode)[CHOOSE k \in found : \A m \in found : k <= m],
                     Tail(path))

\* handleLazyLoadChildren(dataId, path, messageId, limit)
HandleLazyLoadChildren(dataId, path, msgId, limit) ==
    IF dataId \notin DOMAIN workerDataStore
    THEN Answer(<<ChildrenLoadedMsg(msgId, <<>>)>>)
    ELSE LET target == LazyNavigate(workerDataStore[dataId], path)
         IN IF target = <<>>
            THEN Answer(<<ChildrenLoadedMsg(msgId, <<>>)>>)
            ELSE Answer(<<ChildrenLoadedMsg(msgId,
                            SubSeq(ChildrenOf(target[1]), 1,
                                   Min(limit, Len(ChildrenOf(target[1])))))>>)

NoStats ==
    [totalKeys |-> 0, totalValues |-> 0, depth |-> 0, size |-> 0, objectCount |-> 0,
     arrayCount |-> 0, stringCount |-> 0, numberCount |-> 0, booleanCount |-> 0,
     nullCount |-> 0]

Max(a, b) == IF a > b THEN a ELSE b

\* calculateJsonStats: traverse(currentNode, currentDepth)
RECURSIVE TraverseStats(_, _, _)
RECURSIVE TraverseStatsFrom(_, _, _, _)
TraverseStatsFrom(stats, children, i, currentDepth) ==
    IF i > Len(children) THEN stats
    ELSE TraverseStatsFrom(TraverseStats(stats, children[i], currentDepth + 1),
                           children, i + 1, currentDepth)

TraverseStats(stats, currentNode, currentDepth) ==
    LET counted ==
          [stats EXCEPT
             !.depth = Max(@, currentDepth),
             !.totalValues = @ + 1,
             !.totalKeys = IF Truthy(currentNode.key) THEN @ + 1 ELSE @,
             !.objectCount = IF currentNode.type = "object" THEN @ + 1 ELSE @,
             !.arrayCount = IF currentNode.type = "array" THEN @ + 1 ELSE @,
             !.stringCount = IF currentNode.type = "string" THEN @ + 1 ELSE @,
             !.size = IF currentNode.type = "string"
                      THEN @ + Len(currentNode.value.str) ELSE @,
             !.numberCount = IF currentNode.type = "number" THEN @ + 1 ELSE @,
             !.booleanCount = IF currentNode.type = "boolean" THEN @ + 1 ELSE @,
             !.nullCount = IF currentNode.type = "null" THEN @ + 1 ELSE @]
    IN TraverseStatsFrom(counted, ChildrenOf(currentNode), 1, currentDepth)

\* A traversal that stops at the node it is given.
CalculateJsonStatsOfRoot(node) == TraverseStats(NoStats, [node EXCEPT !.children = <<>>], 0)

CalculateJsonStats(node) == TraverseStats(NoStats, node, 0)

\* handleCalculateStats(node, messageId)
HandleCalculateStats(node, msgId) == Answer(<<StatsMsg(msgId, CalculateJsonStats(node))>>)

\* handleSearchRawJson(jsonString, query, messageId)
HandleSearchRawJson(query, msgId) ==
    IF ~input.parsed
    THEN [NewSearch("regular", <<>>, query, msgId, 0)
             EXCEPT !.nodesToProcess = <<>>,
                    !.out = <<ProgressMsg(msgId, 5), ResultsMsg(msgId, <<>>)>>]
    ELSE After(<<ProgressMsg(msgId, 5), ProgressMsg(msgId, 20)>>
               \o BuildProgress(input.data, msgId)
               \o <<ProgressMsg(msgId, 50)>>,
               HandleSearch(
                   CreateJsonNodeWithProgress(input.data, msgId, <<>>, <<>>, 0, <<>>),
                   input.query, msgId))

\* The handles and paths a caller of lazyLoadChildren passes
LazyPaths == { <<>>, <<<<"a">>>>, <<ItemKey(0)>> }

DataIds == {parsedDataIds[k] : k \in DOMAIN parsedDataIds} \cup {UnknownDataId}

\* The payloads of a message: <<>> stands for a message without payload.
\* `limits` are the values of the optional field `limit` to go through.
Payloads(type, limits) ==
    IF type = "LAZY_LOAD_CHILDREN"
    THEN {<<>>} \cup {<<[dataId |-> i, path |-> q, limit |-> l]>> :
                          i \in DataIds, q \in LazyPaths, l \in limits}
    ELSE {<<>>, <<[dataId |-> <<>>, path |-> <<>>, limit |-> <<>>]>>}

\* self.onmessage, up to the end of its task.  Reading a field of a missing
\* payload throws inside the try block, and the catch posts ERROR; a type
\* without a case reaches `default`, which only logs.
SelfOnMessage(type, payload) ==
    /\ Len(received) < MaxMessages
    /\ (type \in {"SEARCH", "SEARCH_STREAM", "CALCULATE_STATS"} /\ payload # <<>>)
          => tree # <<>>
    /\ \E msgId \in {Len(received) + 1} :
       \E handled \in
            {IF type = "EXPAND_NODE" THEN Answer(<<>>)
             ELSE IF payload = <<>> THEN Answer(<<ErrorMsg(msgId)>>)
             ELSE CASE type = "PARSE_JSON" -> Answer(HandleParseJson(msgId))
                    [] type = "PARSE_JSON_METADATA" ->
                           HandleParseJsonMetadata(msgId, MetadataMaxDepth)
                    [] type = "SEARCH" ->
                           FromSearch(HandleSearch(tree[1], input.query, msgId))
                    [] type = "SEARCH_STREAM" ->
                           FromSearch(HandleSearchStream(tree[1], input.query, msgId))
                    [] type = "SEARCH_RAW_JSON" ->
                           FromSearch(HandleSearchRawJson(input.query, msgId))
                    [] type = "SEARCH_RAW_JSON_STREAM" ->
                           FromSearch(HandleSearchRawJsonStream(input.query, msgId))
                    [] type = "CALCULATE_STATS" -> HandleCalculateStats(tree[1], msgId)
                    [] type = "LAZY_LOAD_CHILDREN" ->
                           HandleLazyLoadChildren(
                               payload[1].dataId, payload[1].path, msgId,
                               \* the default of the parameter `limit`
                               IF payload[1].limit = <<>> THEN LazyLimit
                               ELSE payload[1].limit[1])} :
          /\ received' = Append(received, type)
          /\ outbox' = outbox \o handled.out
          /\ jobs' = IF handled.job # <<>> THEN Put(jobs, msgId, handled.job[1]) ELSE jobs
          /\ workerDataStore' = handled.store
          /\ dataTimestamps' = handled.stamps
          /\ lazyRequests' =
                IF type = "LAZY_LOAD_CHILDREN" /\ payload # <<>>
                THEN Put(lazyRequests, msgId,
                         [dataId |-> payload[1].dataId, path |-> payload[1].path,
                          found |-> payload[1].dataId \in DOMAIN workerDataStore,
                          limit |-> payload[1].limit,
                          at |-> dateNow])
                ELSE lazyRequests
    /\ UNCHANGED <<input, jsonPathLib, tree, threadVars, parsedDataIds, lazyLoads,
                   settled, dateNow>>

\* The responses to request id that end it
IsTerminal(m) ==
    m.type # "PROGRESS" /\ (m.type = "SEARCH_RESULT_STREAM" => m.isComplete)

TerminalResponses(id) ==
    SelectSeq(outbox, LAMBDA m : m.messageId = id /\ IsTerminal(m))

\* The text of the document that is parsed through its metadata: the JSON
\* text of input.data followed by spaces, longer than MetadataThreshold
BigJsonString == JsonText(input.data, BigLen)

\* parseJsonWithMetadata resumes with the worker's response; useJsonViewer keeps
\* the node it returns
MetadataParsed(id) ==
    /\ received[id] = "PARSE_JSON_METADATA"
    /\ id \notin settled
    /\ TerminalResponses(id) # <<>>
    /\ BigJsonString.length > MetadataThreshold
    /\ LET response == TerminalResponses(id)[1]
       IN IF response.type = "PARSE_JSON_METADATA_SUCCESS"
          THEN /\ parsedDataIds' = Put(parsedDataIds, CacheKey(BigJsonString),
                                       response.dataId)
               /\ tree' = <<ReconstructNodeFromMetadata(response.metadata)>>
          ELSE UNCHANGED <<parsedDataIds, tree>>
    /\ settled' = settled \cup {id}
    /\ UNCHANGED <<input, jsonPathLib, jobs, outbox, received, threadVars,
                   workerDataStore, dataTimestamps, lazyRequests, lazyLoads, dateNow>>

\* lazyLoadChildren resumes with the worker's response and returns to its caller
LazyLoaded(id) ==
    /\ received[id] = "LAZY_LOAD_CHILDREN"
    /\ id \notin settled
    /\ TerminalResponses(id) # <<>>
    /\ LET response == TerminalResponses(id)[1]
       IN lazyLoads' = Put(lazyLoads, id,
                           IF response.type = "CHILDREN_LOADED"
                           THEN [returned |-> response.children]
                           ELSE [returned |-> <<>>])
    /\ settled' = settled \cup {id}
    /\ UNCHANGED <<input, jsonPathLib, tree, jobs, outbox, received, threadVars,
                   parsedDataIds, workerDataStore, dataTimestamps, lazyRequests, dateNow>>

\* The interval of the store fires, CLEANUP_INTERVAL after its last firing
SweepInterval ==
    /\ dateNow < MaxSweeps * CLEANUP_INTERVAL
    /\ dateNow' = dateNow + CLEANUP_INTERVAL
    /\ LET kept == {i \in DOMAIN dataTimestamps :
                       ~(dateNow' - dataTimestamps[i] > DATA_EXPIRY)}
       IN /\ workerDataStore' = [i \in kept |-> workerDataStore[i]]
          /\ dataTimestamps' = [i \in kept |-> dataTimestamps[i]]
    /\ UNCHANGED <<input, jsonPathLib, tree, jobs, outbox, received, threadVars,
                   parsedDataIds, lazyRequests, lazyLoads, settled>>

\* The documents of the store's model: {"a":[],"b":1}, 1 and a text that is
\* not JSON (see InitStore)
StoreDocuments ==
    { JObject(<<Entry(<<"a">>, JArray(<<>>)), Entry(<<"b">>, JNumber(1))>>),
      JNumber(1) }

\* The documents of lazy loading: {"a":[],"b":1} and {"":{"a":{"b":1}}}
LazyDocuments ==
    { JObject(<<Entry(<<"a">>, JArray(<<>>)), Entry(<<"b">>, JNumber(1))>>),
      JObject(<<Entry(<<>>,
                      JObject(<<Entry(<<"a">>,
                                      JObject(<<Entry(<<"b">>, JNumber(1))>>))>>))>>) }

StoreStart ==
    /\ jsonPathLib = [throws |-> FALSE, count |-> 0]
    /\ tree = <<>>
    /\ jobs = <<>>
    /\ outbox = <<>>
    /\ received = <<>>
    /\ asyncJob = <<>>
    /\ threadResults = <<>>

InitStore ==
    /\ input \in
         [parsed : {TRUE}, data : StoreDocuments, query : {<<"a">>}]
         \cup [parsed : {FALSE}, data : {JNull}, query : {<<"a">>}]
    /\ StoreStart

InitLazy ==
    /\ input \in [parsed : {TRUE}, data : LazyDocuments, query : {<<"a">>}]
    /\ StoreStart

StoreOnly == UNCHANGED <<mgrVars, orchVars, cacheVars, viewVars>>

NextStore ==
    \/ \E type \in MessageTypes : \E payload \in Payloads(type, {<<>>}) :
          SelfOnMessage(type, payload) /\ StoreOnly
    \/ \E id \in DOMAIN jobs :
          ChunkTimer(id) /\ UNCHANGED <<storeVars, dateNow>> /\ StoreOnly
    \/ \E id \in DOMAIN received : MetadataParsed(id) /\ StoreOnly
    \/ \E id \in DOMAIN received : LazyLoaded(id) /\ StoreOnly
    \/ SweepInterval /\ StoreOnly

\* Lazy loading: a document is parsed into the store and its children are
\* asked for, with and without a limit.
NextLazy ==
    \/ \E type \in {"PARSE_JSON_METADATA", "LAZY_LOAD_CHILDREN"} :
          \E payload \in Payloads(type, {<<>>, <<1>>}) :
             SelfOnMessage(type, payload) /\ StoreOnly
    \/ \E id \in DOMAIN received : MetadataParsed(id) /\ StoreOnly
    \/ \E id \in DOMAIN received : LazyLoaded(id) /\ StoreOnly
    \/ SweepInterval /\ StoreOnly

(***************************************************************************)
(* Specifications                                                          *)
(***************************************************************************)
Init == InitMgr /\ OrchIdle /\ WorkerIdle /\ LazyIdle /\ ViewIdle

Next == NextMgr(MaxCalls)

Spec == Init /\ [][Next]_vars

SpecTimed == Init /\ [][NextTimed]_vars

SpecMemory == Init /\ [][NextMemory]_vars

\* The orchestrator with a document loaded; manager and worker are not looked at.
OrchInit == InitMgr /\ InitOrch /\ WorkerIdle /\ LazyIdle /\ ViewIdle

SpecOrch == OrchInit /\ [][NextOrch]_vars

\* The worker and the builders on one input.
WorkerInit == InitMgr /\ OrchIdle /\ InitWorker /\ LazyIdle /\ ViewIdle

SpecWorker == WorkerInit /\ [][NextWorker]_vars

\* The metadata cache under parseJson calls of the viewer
CacheInit == InitMgr /\ OrchIdle /\ WorkerIdle /\ LazyIdle /\ ViewIdle

SpecCache == CacheInit /\ [][NextCache]_vars

\* The worker under every message of its protocol, with its store
StoreInit ==
    InitMgr /\ OrchIdle /\ InitStore /\ CacheIdle /\ StoreIdle /\ dateNow = 0 /\ ViewIdle

SpecStore == StoreInit /\ [][NextStore]_vars

\* The same, with the event loop at work: a response that was posted is
\* delivered to the client and the interval of the store keeps firing.
\* Requests are the caller's choice and are not forced.
EventLoop ==
    \/ \E id \in DOMAIN received : MetadataParsed(id) /\ StoreOnly
    \/ \E id \in DOMAIN received : LazyLoaded(id) /\ StoreOnly
    \/ SweepInterval /\ StoreOnly

SpecStoreFair == SpecStore /\ WF_vars(EventLoop)

\* Lazy loading from the store
LazyInit ==
    InitMgr /\ OrchIdle /\ InitLazy /\ CacheIdle /\ StoreIdle /\ dateNow = 0 /\ ViewIdle

SpecLazy == LazyInit /\ [][NextLazy]_vars

(***************************************************************************)
(* Part A.  Properties                                                     *)
(***************************************************************************)
\* An operation is in flight from its registration until it is torn down: it
\* is tracked, its callbacks and its watchdog are installed and it holds its worker.
InFlight(id) ==
    /\ id \in DOMAIN operationMetadata
    /\ id \in pendingCallbacks
    /\ id \in rejectCallbacks
    /\ id \in DOMAIN timeoutIds
    /\ id \in DOMAIN workerMessageMap

\* No per-operation map of the manager mentions id.
Cleared(id) ==
    /\ id \notin pendingCallbacks
    /\ id \notin rejectCallbacks
    /\ id \notin progressCallbacks
    /\ id \notin streamCallbacks
    /\ id \notin DOMAIN timeoutIds
    /\ id \notin DOMAIN operationMetadata

RECURSIVE SumEstimates(_, _)
SumEstimates(meta, ids) ==
    IF ids = {} THEN 0
    ELSE LET id == CHOOSE x \in ids : TRUE
         IN meta[id].memoryEstimate + SumEstimates(meta, ids \ {id})

PromiseOf(id) == promise[closure[id].call]

\* C1: in every reachable state at most MAX_CONCURRENT_OPERATIONS (3) operations
\* are in flight, also when requests are issued back to back.
C1_AtMostThreeInFlight ==
    Cardinality({id \in Ids : InFlight(id)}) <= MAX_CONCURRENT_OPERATIONS

\* C2: once the terminal response of an operation has been processed, no
\* per-operation map mentions its id, its estimate has been credited back and
\* the next request is admissible.
C2_TerminalClearsOperation ==
    ev.kind = "terminal" =>
        /\ Cleared(ev.id)
        /\ currentMemoryUsage =
               SumEstimates(operationMetadata, DOMAIN operationMetadata)
        /\ Cardinality(DOMAIN operationMetadata) < MAX_CONCURRENT_OPERATIONS

\* C3: once the terminal response of an admitted operation has been delivered,
\* the promise returned to the caller is fulfilled.
C3_TerminalFulfilsPromise ==
    ev.kind = "terminal" => PromiseOf(ev.id).state = "fulfilled"

\* C4: when the watchdog of an operation expires, or the sweep reaps it for its
\* age, its promise is rejected and all state held for its id is removed.
C4_TimeoutRejectsAndClears ==
    ev.kind \in {"timeout", "sweep"} =>
        /\ PromiseOf(ev.id).state = "rejected"
        /\ Cleared(ev.id)

\* C5: after terminate() all workers are destroyed, every per-operation map is
\* empty and no promise of an operation that was registered is still pending.
C5_TerminateSettlesEverything ==
    ev.kind = "terminate" =>
        /\ workers = <<>>
        /\ \A id \in Ids : Cleared(id)
        /\ \A id \in DOMAIN closure : PromiseOf(id).state # "pending"

\* C6: a PROGRESS message for an in-flight operation leaves the operation in
\* flight and settles no promise, with or without a progress callback.
C6_ProgressKeepsOperation ==
    [][\A id \in Ids :
          (ev'.kind = "progress" /\ ev'.id = id /\ InFlight(id))
              => (InFlight(id)' /\ promise' = promise)]_vars

(***************************************************************************)
(* Part B.  Properties                                                     *)
(***************************************************************************)
\* C7: once a later query has been issued while query q1 was unresolved, no
\* result, progress or expansion update of q1 is applied any more.
C7_SupersededSearchIsSilent == applied \notin superseded

(***************************************************************************)
(* Part C.  Properties                                                     *)
(***************************************************************************)
\* The stream messages the worker has posted for a request.
StreamMsgs(id) ==
    SelectSeq(outbox, LAMBDA m : m.type = "SEARCH_RESULT_STREAM" /\ m.messageId = id)

Completions(id) == SelectSeq(StreamMsgs(id), LAMBDA m : m.isComplete)

StreamRequests ==
    {id \in 1..Len(received) : received[id] \in {"SEARCH_STREAM", "SEARCH_RAW_JSON_STREAM"}}

\* The request has no processChunk timer pending: the worker is done with it.
Finished(id) == id \in 1..Len(received) /\ id \notin DOMAIN jobs

\* C8: a stream request gets at most one completion, nothing follows the
\* completion, and once the worker is done with the request it has got one.
C8_ExactlyOneCompletion ==
    \A id \in StreamRequests :
        /\ Len(Completions(id)) <= 1
        /\ Len(Completions(id)) = 1 => StreamMsgs(id)[Len(StreamMsgs(id))].isComplete
        /\ Finished(id) => Len(Completions(id)) = 1

\* A stream search that took several chunks and sent a full batch before its
\* remaining results and the completion.
C8_Witness ==
    \E id \in StreamRequests :
        /\ Finished(id)
        /\ Len(StreamMsgs(id)) > streamBatchSize + 1
        /\ Len(Completions(id)) = 1

\* The results a request has delivered.
StreamedResults(id) ==
    {StreamMsgs(id)[k].result[1] :
        k \in {j \in 1..Len(StreamMsgs(id)) : StreamMsgs(id)[j].result # <<>>}}

ReturnedResults(id) ==
    UNION {Range(outbox[k].results) :
              k \in {j \in 1..Len(outbox) :
                        outbox[j].type = "SEARCH_RESULTS" /\ outbox[j].messageId = id}}

\* C9: a finished SEARCH and a finished SEARCH_STREAM on the same tree and
\* query have delivered the same set of results.
C9_StreamEqualsSearch ==
    \A i, j \in 1..Len(received) :
        (/\ received[i] = "SEARCH" /\ Finished(i)
         /\ received[j] = "SEARCH_STREAM" /\ Finished(j))
        => StreamedResults(j) = ReturnedResults(i)

\* The nodes of the tree with their parents: <<parent, child>> pairs.
RECURSIVE Edges(_)
RECURSIVE EdgesFrom(_, _)
EdgesFrom(node, i) ==
    IF i > Len(ChildrenOf(node)) THEN {}
    ELSE {<<node, ChildrenOf(node)[i]>>} \cup Edges(ChildrenOf(node)[i])
         \cup EdgesFrom(node, i + 1)

Edges(node) == EdgesFrom(node, 1)

\* The shape the tree of a document is to have.
WellShaped(root) ==
    /\ \A n \in {root} \cup {e[2] : e \in Edges(root)} :
          /\ n.depth = Len(n.path)
          /\ (n.children # <<>>) <=> (n.type \in {"object", "array"})
    /\ \A e \in Edges(root) : e[2].path = Append(e[1].path, e[2].key[1])

\* The trees built so far: the one the main thread holds and the ones the
\* worker has posted.
BuiltTrees ==
    {tree[1] : x \in {1 : y \in 1..Len(tree)}}
    \cup {outbox[k].node[1] : k \in {j \in 1..Len(outbox) : outbox[j].node # <<>>}}

\* C10: every node of a built tree has depth = Len(path), the path of its
\* parent followed by its own key, and children iff it is an object or array.
C10_TreeShape == \A t \in BuiltTrees : WellShaped(t)

\* Every list of results a search has delivered so far, with the way it took.
StreamList(id) ==
    [k \in 1..Cardinality({j \in 1..Len(StreamMsgs(id)) : StreamMsgs(id)[j].result # <<>>})
        |-> SelectSeq(StreamMsgs(id), LAMBDA m : m.result # <<>>)[k].result[1]]

ResultLists ==
    {[via |-> threadResults[k].via, results |-> threadResults[k].results,
      done |-> TRUE] : k \in 1..Len(threadResults)}
    \cup {[via |-> "worker", results |-> outbox[k].results, done |-> TRUE] :
             k \in {j \in 1..Len(outbox) : outbox[j].type = "SEARCH_RESULTS"}}
    \cup {[via |-> "stream", results |-> StreamList(id), done |-> Finished(id)] :
             id \in StreamRequests}

\* C11: no list of results holds two results with the same path.  Stated for
\* the results of the substring search, which the repository computes itself.
C11_NoDuplicatePaths ==
    \A l \in ResultLists :
        \A i, j \in 1..Len(l.results) :
            (/\ i # j
             /\ l.results[i].matchType \in {"key", "value"}
             /\ l.results[j].matchType \in {"key", "value"})
            => l.results[i].path # l.results[j].path

\* The tree the searches of a run work on.
RootNode == CreateJsonNode(input.data, <<>>, <<>>, 0, <<>>)

\* A result of the substring search is sound: its path leads to a node that
\* matches the query the way matchType says.
Sound(r) ==
    LET target == GetValueAtPath(RootNode, r.path)
        normalizedQuery == ToLowerCase(Trim(input.query))
    IN /\ target # <<>>
       /\ r.matchType = "key" => KeyMatches(target[1], normalizedQuery)
       /\ r.matchType = "value" => ValueMatches(target[1], normalizedQuery)

\* C12: every result of a substring search resolves, by its path, to a node
\* whose key (matchType key) or primitive value (matchType value) holds the query.
C12_ResultsAreSound ==
    \A l \in ResultLists :
        \A i \in 1..Len(l.results) :
            l.results[i].matchType \in {"key", "value"} => Sound(l.results[i])

\* C13: no search delivers more results than the cap.
C13_AtMostMaxResults ==
    \A l \in ResultLists : Len(l.results) <= maxResults

\* The query of the run is one the search dispatch is to take for JSONPath.
IsJsonPathQuery ==
    StartsWith(Trim(input.query), <<"$">>) /\ IsValidJSONPath(Trim(input.query))

\* C14: a query that starts with $ and validates as JSONPath is answered with
\* the JSONPath results, every other query with substring results, whichever
\* way the search takes.
C14_DispatchByQuery ==
    \A l \in ResultLists :
        IF IsJsonPathQuery
        THEN (l.done /\ ~jsonPathLib.throws) => l.results = JsonPathResults(RootNode)
        ELSE \A i \in 1..Len(l.results) : l.results[i].matchType \in {"key", "value"}

\* C15: when the JSONPath evaluation fails, the search delivers the results of
\* the substring search for the same query.
C15_FallbackToSubstring ==
    \A l \in ResultLists :
        (IsJsonPathQuery /\ jsonPathLib.throws /\ l.done)
        => Range(l.results) = Range(SearchInJson(RootNode, input.query))

(***************************************************************************)
(* Part D.  Properties                                                     *)
(***************************************************************************)
Keys(cache) == {cache[i].key : i \in DOMAIN cache}

\* C16: the cache never holds more than maxSize entries; a set of a key that
\* is present evicts no entry; a set of a new key into a full cache evicts
\* exactly one entry, and none was used (by get or set) before it.
C16_LruEviction ==
    [][(parseReturn' # <<>> /\ ~parseReturn'[1].hit) =>
          LET key == DocumentKey[parseReturn'[1].doc]
          IN /\ Len(metadataCache') <= CacheMaxSize
             /\ key \in Keys(metadataCache) =>
                    Keys(metadataCache') = Keys(metadataCache)
             /\ (key \notin Keys(metadataCache) /\ Len(metadataCache) = CacheMaxSize) =>
                    \E i \in DOMAIN metadataCache :
                       /\ Keys(metadataCache') =
                             (Keys(metadataCache) \ {metadataCache[i].key}) \cup {key}
                       /\ \A j \in DOMAIN metadataCache :
                             metadataCache[i].timestamp <= metadataCache[j].timestamp]_vars

\* C17: a call of parseJson answered from the cache returns the tree that the
\* cache entry of its own document gives.
C17_NoKeyAliasing ==
    (parseReturn # <<>> /\ parseReturn[1].hit) =>
        parseReturn[1].node =
            ReconstructNodeFromMetadata(
                ExtractNodeMetadata(DocumentNode[parseReturn[1].doc]))

\* A child that reconstructNodeFromMetadata put in place of a real child
IsPlaceholder(child) == child.value = JString(Loading) /\ child.children = <<>>

ShowsPlaceholders ==
    tree # <<>> /\ \E i \in DOMAIN ChildrenOf(tree[1]) : IsPlaceholder(ChildrenOf(tree[1])[i])

\* The tree shows children and none of them is a placeholder
ShowsRealChildren ==
    tree # <<>> /\ ChildrenOf(tree[1]) # <<>> /\ ~ShowsPlaceholders

C19_UnknownDataIdIsAnError ==
    \A id \in DOMAIN lazyLoads :
       (id \in DOMAIN lazyRequests /\ ~lazyRequests[id].found) =>
           lazyLoads[id] # [returned |-> <<>>]

\* C20: every request the worker has finished handling got exactly one
\* terminal response with its messageId.
C20_OneTerminalResponse ==
    \A id \in DOMAIN received : Finished(id) => Len(TerminalResponses(id)) = 1

(***************************************************************************)
(* Part A.  Properties of the watchdog                                     *)
(***************************************************************************)
\* C21: a PROGRESS message handled for an operation that is in flight leaves
\* the operation with a watchdog that fires a full 120 s later.
C21_ProgressRestartsWatchdog ==
    [][(ev'.kind = "progress" /\ ev'.id \in DOMAIN operationMetadata) =>
          /\ ev'.id \in DOMAIN timeoutIds'
          /\ timeoutIds'[ev'.id].armed
          /\ timeoutIds'[ev'.id].at = now' + WatchdogTicks]_vars

(***************************************************************************)
(* Part D.  Properties of the worker's store                               *)
(***************************************************************************)
\* The times at which the stored tree dataId was stored or read
AccessTimes(dataId) ==
    {dataTimestamps[dataId]} \cup
    {lazyRequests[id].at : id \in {i \in DOMAIN lazyRequests :
                                      /\ lazyRequests[i].dataId = dataId
                                      /\ lazyRequests[i].found}}

LastAccess(dataId) ==
    CHOOSE t \in AccessTimes(dataId) : \A u \in AccessTimes(dataId) : u <= t

\* C22: a tree leaves the worker's store only when it was neither stored nor
\* read by LAZY_LOAD_CHILDREN during the last 30 minutes.
C22_SweptOnlyWhenIdle ==
    [][\A dataId \in (DOMAIN workerDataStore) \ (DOMAIN workerDataStore') :
          dateNow' - LastAccess(dataId) > DATA_EXPIRY]_vars

(***************************************************************************)
(* Part B.  Properties of the dispatch                                     *)
(***************************************************************************)
\* The debounce timer fires and performSearch starts a search for its query
StartsSearch ==
    /\ timeoutRef # <<>>
    /\ jsonNode.loaded
    /\ currentSearchRef' \notin {currentSearchRef, 0}

\* C23: no search is started for a query that starts with $ and is not a
\* valid JSONPath expression.
C23_InvalidJsonPathWithheld ==
    [][StartsSearch =>
          ~(/\ StartsWith(Trim(timeoutRef[1].query), <<"$">>)
            /\ ~IsValidJSONPath(timeoutRef[1].query))]_vars

(***************************************************************************)
(* Part E.  The tree the viewer shows: statistics, expansion transforms,   *)
(* flattening for the virtual list and reconstruction of the value         *)
(***************************************************************************)
\* The virtual list shows INITIAL_LOAD_SIZE children of a node and CHUNK_SIZE
\* more per "load more" once the tree has more than ProgressiveThreshold nodes.
\* The program's values are 100, 50 and 1000 (virtualized-json-tree.tsx:39, 40
\* and 371); the model scales them down so that its documents reach them.
INITIAL_LOAD_SIZE == 3
CHUNK_SIZE == 2
ProgressiveThreshold == 5

ProtoKey == <<"_", "_", "p", "r", "o", "t", "o", "_", "_">>

\* The documents of the viewer's model, as JSON.parse reads them:
\*   1, "ab", true, {}, [], {"":{"a":true}}, {"a":{"b":{"c":[true,"xy"]}}},
\*   {"__proto__":1,"a":"xy"}, [1,1,1,2,1] and the documents of Part C
ViewDocuments ==
    JsonValues \cup
    { JString(<<"a", "b">>),
      JBoolean(TRUE),
      JObject(<<>>),
      JArray(<<>>),
      JObject(<<Entry(<<>>, JObject(<<Entry(<<"a">>, JBoolean(TRUE))>>))>>),
      JObject(<<Entry(<<"a">>,
                JObject(<<Entry(<<"b">>,
                          JObject(<<Entry(<<"c">>,
                                    JArray(<<JBoolean(TRUE),
                                             JString(<<"x", "y">>)>>))>>))>>))>>),
      JObject(<<Entry(ProtoKey, JNumber(1)), Entry(<<"a">>, JString(<<"x", "y">>))>>),
      JArray(<<JNumber(1), JNumber(1), JNumber(1), JNumber(2), JNumber(1)>>) }

\* The documents of the progressive list: [1,1,1,2,1], and
\* {"":[1,1,1,1],"a":1,"b":1,"c":1}, where the root and its first child have the
\* same path
ListDocuments ==
    { JArray(<<JNumber(1), JNumber(1), JNumber(1), JNumber(2), JNumber(1)>>),
      JObject(<<Entry(<<>>, JArray(<<JNumber(1), JNumber(1), JNumber(1), JNumber(1)>>)),
                Entry(<<"a">>, JNumber(1)),
                Entry(<<"b">>, JNumber(1)),
                Entry(<<"c">>, JNumber(1))>>) }

\* The tree each branch of useJsonViewer.parseJson hands to setJsonNode: built
\* on the main thread, built by the worker (PARSE_JSON), or reconstructed from
\* the worker's metadata (PARSE_JSON_METADATA)
Builders == {"thread", "worker", "metadata"}

BuildTree(builder) ==
    CASE builder = "thread" -> CreateJsonNode(input.data, <<>>, <<>>, 0, <<>>)
      [] builder = "worker" ->
             CreateJsonNodeWithProgress(input.data, 1, <<>>, <<>>, 0, <<>>)
      [] builder = "metadata" ->
             ReconstructNodeFromMetadata(
                 WorkerExtractNodeMetadata(
                     CreateJsonNodeWithProgress(input.data, 1, <<>>, <<>>, 0, <<>>),
                     MetadataMaxDepth))

\* deepCopyJsonNode(node)
RECURSIVE DeepCopyJsonNode(_)
DeepCopyJsonNode(node) ==
    [key |-> node.key, value |-> node.value, type |-> node.type, path |-> node.path,
     depth |-> node.depth, isExpanded |-> node.isExpanded, index |-> node.index,
     children |->
        IF node.children = <<>> THEN <<>>
        ELSE <<[i \in DOMAIN node.children[1] |->
                   DeepCopyJsonNode(node.children[1][i])]>>]

\* JSON.stringify of a string and of an array of strings
EscapeChar(ch) == IF ch = "\"" \/ ch = "\\" THEN <<"\\", ch>> ELSE <<ch>>

QuoteString(str) ==
    <<"\"">> \o Join([i \in DOMAIN str |-> EscapeChar(str[i])], <<>>) \o <<"\"">>

StringifyPath(path) ==
    <<"[">> \o Join([i \in DOMAIN path |-> QuoteString(path[i])], <<",">>) \o <<"]">>

\* expandPathsInNode(node, pathsToExpand)
RECURSIVE ExpandPathsInNode(_, _)
ExpandPathsInNode(node, pathsToExpand) ==
    LET shouldForceExpand == StringifyPath(node.path) \in pathsToExpand
    IN [key |-> node.key, value |-> node.value, type |-> node.type,
        path |-> node.path, depth |-> node.depth,
        isExpanded |-> IF shouldForceExpand THEN TRUE ELSE node.isExpanded,
        index |-> node.index,
        children |->
           IF node.children = <<>> THEN <<>>
           ELSE <<[i \in DOMAIN node.children[1] |->
                      ExpandPathsInNode(node.children[1][i], pathsToExpand)]>>]

\* resetNodeExpansion(node)
RECURSIVE ResetNodeExpansion(_)
ResetNodeExpansion(node) ==
    [key |-> node.key, value |-> node.value, type |-> node.type, path |-> node.path,
     depth |-> node.depth, isExpanded |-> node.depth < 2, index |-> node.index,
     children |->
        IF node.children = <<>> THEN <<>>
        ELSE <<[i \in DOMAIN node.children[1] |->
                   ResetNodeExpansion(node.children[1][i])]>>]

\* setAllNodesExpanded(node, expanded)
RECURSIVE SetAllNodesExpanded(_, _)
SetAllNodesExpanded(node, expanded) ==
    [key |-> node.key, value |-> node.value, type |-> node.type, path |-> node.path,
     depth |-> node.depth, isExpanded |-> expanded, index |-> node.index,
     children |->
        IF node.children = <<>> THEN <<>>
        ELSE <<[i \in DOMAIN node.children[1] |->
                   SetAllNodesExpanded(node.children[1][i], expanded)]>>]

\* getPathsToExpand(results)
GetPathsToExpand(results) ==
    UNION { {StringifyPath(SubSeq(results[r].path, 1, i)) :
                i \in 0..Len(results[r].path)} : r \in DOMAIN results }

\* toggleNodeAtPath: findAndToggle(currentNode, currentPath)
RECURSIVE FindAndToggle(_, _, _)
FindAndToggle(currentNode, currentPath, targetPath) ==
    IF /\ Len(currentPath) = Len(targetPath)
       /\ StringifyPath(currentPath) = StringifyPath(targetPath)
    THEN [currentNode EXCEPT !.isExpanded = ~currentNode.isExpanded]
    ELSE IF currentNode.children # <<>>
    THEN [currentNode EXCEPT !.children =
            <<[i \in DOMAIN currentNode.children[1] |->
                 LET child == currentNode.children[1][i]
                     childPath == IF Truthy(child.key)
                                  THEN Append(currentPath, child.key[1])
                                  ELSE currentPath
                 IN FindAndToggle(child, childPath, targetPath)]>>]
    ELSE currentNode

\* A toggle that only ever opens the node at the path.
ExpandNodeAtPath(node, targetPath) ==
    ExpandPathsInNode(node, {StringifyPath(targetPath)})

\* toggleNodeAtPath(node, targetPath)
ToggleNodeAtPath(node, targetPath) ==
    FindAndToggle(DeepCopyJsonNode(node), <<>>, targetPath)

FlatNode(node, level, isVirtualPlaceholder) ==
    [node |-> node, visible |-> TRUE, level |-> level,
     isVirtualPlaceholder |-> isVirtualPlaceholder]

\* flattenJsonTree(node, level)
RECURSIVE FlattenJsonTree(_, _)
FlattenJsonTree(node, level) ==
    <<FlatNode(node, level, FALSE)>>
    \o (IF node.isExpanded /\ node.children # <<>> /\ Len(node.children[1]) > 0
        THEN Join([i \in DOMAIN node.children[1] |->
                      FlattenJsonTree(node.children[1][i], level + 1)], <<>>)
        ELSE <<>>)

\* The "load more" row flattenJsonTreeProgressive puts after the children shown
LoadMoreNode(node, level, remainingCount) ==
    [key |-> <<<<"l", "o", "a", "d", "-", "m", "o", "r", "e">>>>,
     value |-> JString(<<"L", "o", "a", "d", " ">>
                       \o NumToStr(Min(CHUNK_SIZE, remainingCount))
                       \o <<" ", "m", "o", "r", "e", " ", "i", "t", "e", "m", "s", " ", "(">>
                       \o NumToStr(remainingCount)
                       \o <<" ", "r", "e", "m", "a", "i", "n", "i", "n", "g", ")">>),
     type |-> "string",
     path |-> Append(node.path, <<"l", "o", "a", "d", "-", "m", "o", "r", "e">>),
     depth |-> level + 1, isExpanded |-> FALSE, index |-> <<>>, children |-> <<>>]

\* loadedChunks.get(nodeKey) || INITIAL_LOAD_SIZE
LoadedCount(chunks, nodeKey) ==
    IF nodeKey \in DOMAIN chunks /\ chunks[nodeKey] # 0
    THEN chunks[nodeKey] ELSE INITIAL_LOAD_SIZE

\* flattenJsonTreeProgressive(node, level, result, loadedChunks)
RECURSIVE FlattenJsonTreeProgressive(_, _, _)
FlattenJsonTreeProgressive(node, level, chunks) ==
    <<FlatNode(node, level, FALSE)>>
    \o (IF node.isExpanded /\ node.children # <<>> /\ Len(node.children[1]) > 0
        THEN LET nodeKey == Join(node.path, <<".">>)
                 childrenToShow == Min(LoadedCount(chunks, nodeKey),
                                       Len(node.children[1]))
             IN Join([i \in 1..childrenToShow |->
                        FlattenJsonTreeProgressive(node.children[1][i], level + 1,
                                                   chunks)], <<>>)
                \o (IF childrenToShow < Len(node.children[1])
                    THEN <<FlatNode(LoadMoreNode(node, level,
                                        Len(node.children[1]) - childrenToShow),
                                    level + 1, TRUE)>>
                    ELSE <<>>)
        ELSE <<>>)

\* VirtualizedJsonTree: totalNodesCount and the rows handed to the list
RECURSIVE TotalNodesCount(_)
RECURSIVE TotalNodesCountFrom(_, _)
TotalNodesCountFrom(children, i) ==
    IF i > Len(children) THEN 0
    ELSE TotalNodesCount(children[i]) + TotalNodesCountFrom(children, i + 1)

TotalNodesCount(n) == 1 + TotalNodesCountFrom(ChildrenOf(n), 1)

UseProgressive(node) == TotalNodesCount(node) > ProgressiveThreshold

FlatNodes(node, chunks) ==
    IF UseProgressive(node) THEN FlattenJsonTreeProgressive(node, 0, chunks)
    ELSE FlattenJsonTree(node, 0)

\* obj[key] = value on an object created by `{}`, for keys that are not array
\* indices: the own properties afterwards, in property order.  __proto__ names
\* the accessor inherited from Object.prototype, so assigning through it
\* creates no own property.
AssignProperty(entries, key, value) ==
    IF key = ProtoKey THEN entries
    ELSE IF \E i \in DOMAIN entries : entries[i].k = key
    THEN [i \in DOMAIN entries |->
             IF entries[i].k = key THEN Entry(key, value) ELSE entries[i]]
    ELSE Append(entries, Entry(key, value))

\* reconstructJsonFromNode(node)
RECURSIVE ReconstructJsonFromNode(_)
RECURSIVE ReconstructEntries(_, _, _)
ReconstructEntries(children, i, obj) ==
    IF i > Len(children) THEN obj
    ELSE ReconstructEntries(children, i + 1,
             IF children[i].key # <<>>
             THEN AssignProperty(obj, children[i].key[1],
                                 ReconstructJsonFromNode(children[i]))
             ELSE obj)

ReconstructJsonFromNode(node) ==
    IF node.type = "object" /\ node.children # <<>>
    THEN JObject(ReconstructEntries(node.children[1], 1, <<>>))
    ELSE IF node.type = "array" /\ node.children # <<>>
    THEN JArray([i \in DOMAIN node.children[1] |->
                    ReconstructJsonFromNode(node.children[1][i])])
    ELSE node.value

\* The nodes of a tree, parents before children
RECURSIVE Subtree(_)
Subtree(node) ==
    <<node>> \o Join([i \in DOMAIN ChildrenOf(node) |-> Subtree(ChildrenOf(node)[i])], <<>>)

\* The search results a list handed to expandPathsToResults can hold: one
\* result per node of the tree
ResultOf(node) == SearchResult(node, "value")

ViewResultLists(node) ==
    LET all == [i \in DOMAIN Subtree(node) |-> ResultOf(Subtree(node)[i])]
    IN {<<all[i]>> : i \in DOMAIN all} \cup {all}

\* useJsonViewer.parseJson: the tree is built and its statistics are calculated
ParseDocument(builder) ==
    /\ tree = <<>>
    /\ input.parsed
    /\ \E node \in {BuildTree(builder)} :
          /\ tree' = <<node>>
          /\ statsState' = <<CalculateJsonStats(node)>>
    /\ builtBy' = builder
    /\ UNCHANGED <<input, jsonPathLib, jobs, outbox, received, threadVars,
                   lastTransform, rebuilt, loadedChunks, lastLoadMore>>

\* setJsonNode(prevNode => transform(prevNode))
Transform(op, path, results, node) ==
    /\ tree # <<>>
    /\ tree' = <<node>>
    /\ lastTransform' = [op |-> op, path |-> path, results |-> results, before |-> tree]
    /\ UNCHANGED <<input, jsonPathLib, jobs, outbox, received, threadVars,
                   statsState, builtBy, rebuilt, loadedChunks, lastLoadMore>>

\* toggleNode(path): a row of the list is clicked, or a path no node has
ToggleNode(path) ==
    /\ tree # <<>>
    /\ Transform("toggle", path, <<>>, ToggleNodeAtPath(tree[1], path))

\* expandAll() and collapseAll()
SetAllExpanded(expanded) ==
    /\ tree # <<>>
    /\ Transform(IF expanded THEN "expandAll" ELSE "collapseAll", <<>>, <<>>,
                 SetAllNodesExpanded(tree[1], expanded))

\* searchJson(''): resetNodeExpansion
ResetExpansion ==
    /\ tree # <<>>
    /\ Transform("reset", <<>>, <<>>, ResetNodeExpansion(tree[1]))

\* expandPathsToResults(results): the idle callback expandPaths
ExpandPaths(results) ==
    /\ tree # <<>>
    /\ Transform("expandPaths", <<>>, results,
                 ExpandPathsInNode(tree[1], GetPathsToExpand(results)))

\* The node whose children the row at `row` belongs to, by path and depth: the
\* node of the nearest row above it that is one level higher
ParentOfRow(rows, row) ==
    LET above == {i \in 1..(row - 1) : rows[i].level = rows[row].level - 1}
        node == rows[CHOOSE i \in above : \A j \in above : j <= i].node
    IN [path |-> node.path, depth |-> node.depth]

\* handleLoadMore(parentPath), from a click on a "load more" row
LoadMore(row) ==
    /\ tree # <<>>
    /\ row \in DOMAIN FlatNodes(tree[1], loadedChunks)
    /\ LET flatNode == FlatNodes(tree[1], loadedChunks)[row]
           parentPath == SubSeq(flatNode.node.path, 1, Len(flatNode.node.path) - 1)
           nodeKey == Join(parentPath, <<".">>)
       IN /\ flatNode.isVirtualPlaceholder
          /\ loadedChunks' = Put(loadedChunks, nodeKey,
                                 LoadedCount(loadedChunks, nodeKey) + CHUNK_SIZE)
          /\ lastLoadMore' = <<[parent |-> ParentOfRow(FlatNodes(tree[1], loadedChunks),
                                                       row),
                                before |-> loadedChunks]>>
    /\ UNCHANGED <<input, jsonPathLib, tree, jobs, outbox, received, threadVars,
                   statsState, builtBy, lastTransform, rebuilt>>

\* searchWithJSONPath: reconstructJsonFromNode(node)
Reconstruct ==
    /\ tree # <<>>
    /\ rebuilt = <<>>
    /\ rebuilt' = <<ReconstructJsonFromNode(tree[1])>>
    /\ UNCHANGED <<input, jsonPathLib, tree, jobs, outbox, received, threadVars,
                   statsState, builtBy, lastTransform, loadedChunks, lastLoadMore>>

\* The paths toggleNode is called with: the path of a node, or a path of no node
TogglePaths(node) ==
    {Subtree(node)[i].path : i \in DOMAIN Subtree(node)} \cup {<<<<"z">>>>}

\* The viewer before parseJson
ViewStart ==
    /\ jsonPathLib = [throws |-> FALSE, count |-> 0]
    /\ tree = <<>>
    /\ jobs = <<>>
    /\ outbox = <<>>
    /\ received = <<>>
    /\ asyncJob = <<>>
    /\ threadResults = <<>>
    /\ ViewIdle

InitView ==
    /\ input \in [parsed : {TRUE}, data : ViewDocuments, query : {<<"a">>}]
    /\ ViewStart

InitList ==
    /\ input \in [parsed : {TRUE}, data : ListDocuments, query : {<<"a">>}]
    /\ ViewStart

ViewOnly == UNCHANGED <<mgrVars, orchVars, lazyVars>>

NextView ==
    \/ \E builder \in Builders : ParseDocument(builder) /\ ViewOnly
    \/ \E path \in (IF tree = <<>> THEN {} ELSE TogglePaths(tree[1])) :
          ToggleNode(path) /\ ViewOnly
    \/ \E expanded \in BOOLEAN : SetAllExpanded(expanded) /\ ViewOnly
    \/ ResetExpansion /\ ViewOnly
    \/ \E results \in (IF tree = <<>> THEN {} ELSE ViewResultLists(tree[1])) :
          ExpandPaths(results) /\ ViewOnly
    \/ \E row \in 1..(2 * ProgressiveThreshold + 2) : LoadMore(row) /\ ViewOnly
    \/ Reconstruct /\ ViewOnly

ViewInit == InitMgr /\ OrchIdle /\ InitView /\ LazyIdle

SpecView == ViewInit /\ [][NextView]_vars

\* The virtual list: rows are clicked, which toggles a node or loads more
NextList ==
    \/ \E builder \in Builders : ParseDocument(builder) /\ ViewOnly
    \/ \E path \in (IF tree = <<>> THEN {} ELSE TogglePaths(tree[1])) :
          ToggleNode(path) /\ ViewOnly
    \/ \E row \in 1..(2 * ProgressiveThreshold + 2) : LoadMore(row) /\ ViewOnly

ListInit == InitMgr /\ OrchIdle /\ InitList /\ LazyIdle

SpecList == ListInit /\ [][NextList]_vars

(***************************************************************************)
(* Part E.  Properties of the statistics                                   *)
(***************************************************************************)
\* The height of a tree: 0 for a node without children, one more than the
\* highest child otherwise
RECURSIVE Height(_)
Height(node) ==
    IF ChildrenOf(node) = <<>> THEN 0
    ELSE LET h == {Height(ChildrenOf(node)[i]) : i \in DOMAIN ChildrenOf(node)}
         IN 1 + CHOOSE m \in h : \A x \in h : x <= m

RECURSIVE SumOfLengths(_, _)
SumOfLengths(nodes, i) ==
    IF i > Len(nodes) THEN 0
    ELSE (IF nodes[i].type = "string" THEN Len(nodes[i].value.str) ELSE 0)
         + SumOfLengths(nodes, i + 1)

NodeTypes == {"object", "array", "string", "number", "boolean", "null"}

TypeCount(stats, type) ==
    CASE type = "object" -> stats.objectCount
      [] type = "array" -> stats.arrayCount
      [] type = "string" -> stats.stringCount
      [] type = "number" -> stats.numberCount
      [] type = "boolean" -> stats.booleanCount
      [] type = "null" -> stats.nullCount

\* C24: the statistics of a parsed tree count its nodes: totalValues is the
\* number of nodes, depth is the greatest depth of a node (0 when the root has
\* no children), each count per type is the number of nodes of that type and
\* size is the summed length of the string values.
C24_StatsCountTheTree ==
    (tree # <<>> /\ statsState # <<>>) =>
       LET nodes == Subtree(tree[1])
           jsonStats == statsState[1]
       IN /\ jsonStats.totalValues = Len(nodes)
          /\ jsonStats.depth = Height(tree[1])
          /\ \A i \in DOMAIN nodes : nodes[i].depth <= jsonStats.depth
          /\ \E i \in DOMAIN nodes : nodes[i].depth = jsonStats.depth
          /\ \A type \in NodeTypes :
                TypeCount(jsonStats, type) =
                   Cardinality({i \in DOMAIN nodes : nodes[i].type = type})
          /\ jsonStats.size = SumOfLengths(nodes, 1)

\* A tree four levels deep with a string in it has its statistics
C24_Witness ==
    /\ tree # <<>>
    /\ statsState # <<>>
    /\ statsState[1].depth = 4
    /\ statsState[1].totalValues = 6
    /\ statsState[1].size = 2
    /\ statsState[1].booleanCount = 1

\* C25: totalKeys of a parsed tree is the number of nodes with a defined key,
\* that is every node but the root, whatever the key is.
C25_TotalKeysCountDefinedKeys ==
    (tree # <<>> /\ statsState # <<>>) =>
       LET nodes == Subtree(tree[1])
       IN /\ statsState[1].totalKeys =
                Cardinality({i \in DOMAIN nodes : nodes[i].key # <<>>})
          /\ statsState[1].totalKeys = Len(nodes) - 1

\* The statistics of a tree that has a node under the empty key
C25_EmptyKeyNotCounted ==
    /\ tree # <<>>
    /\ statsState # <<>>
    /\ \E i \in DOMAIN Subtree(tree[1]) : Subtree(tree[1])[i].key = <<<<>>>>
    /\ statsState[1].totalKeys < Len(Subtree(tree[1])) - 1

\* Every key but the empty one is counted
C25_NonEmptyKeysCounted ==
    (tree # <<>> /\ statsState # <<>>) =>
       statsState[1].totalKeys =
          Cardinality({i \in DOMAIN Subtree(tree[1]) :
                          /\ Subtree(tree[1])[i].key # <<>>
                          /\ Subtree(tree[1])[i].key[1] # <<>>})

(***************************************************************************)
(* Part E.  Properties of the expansion transforms                         *)
(***************************************************************************)
\* The step applies the transform op to the tree
StepIs(op) ==
    /\ tree # <<>>
    /\ lastTransform'.op = op
    /\ lastTransform'.before = tree

\* C26: a second resetExpansion changes nothing, a second setAllExpanded(true)
\* changes nothing, and a second toggle of the same path gives back the tree
\* as it was before the first, the flag of every node included.
C26_TwiceIsOnceOrNever ==
    [][/\ (lastTransform.op = "reset" /\ StepIs("reset")) => tree' = tree
       /\ (lastTransform.op = "expandAll" /\ StepIs("expandAll")) => tree' = tree
       /\ (/\ lastTransform.op = "toggle"
           /\ StepIs("toggle")
           /\ lastTransform'.path = lastTransform.path) =>
             tree' = lastTransform.before]_vars

\* A node was toggled twice: the tree is the one that was built, and it was
\* another tree in between
C26_Witness ==
    /\ tree # <<>>
    /\ lastTransform.op = "toggle"
    /\ tree = <<BuildTree(builtBy)>>
    /\ lastTransform.before # tree
    /\ lastTransform.before = <<ToggleNodeAtPath(tree[1], lastTransform.path)>>

\* What a transform may never change in a node
SameButExpansion(a, b) ==
    /\ a.key = b.key
    /\ a.value = b.value
    /\ a.type = b.type
    /\ a.path = b.path
    /\ a.depth = b.depth
    /\ a.index = b.index
    /\ Len(ChildrenOf(a)) = Len(ChildrenOf(b))
    /\ (a.children = <<>>) = (b.children = <<>>)

\* C27: toggle(path) negates isExpanded of exactly the nodes whose path is
\* `path` and keeps everything else of every node; with no node at that path
\* the tree is the same.
C27_ToggleFrame ==
    (tree # <<>> /\ lastTransform.op = "toggle") =>
       LET before == Subtree(lastTransform.before[1])
           after == Subtree(tree[1])
       IN /\ Len(after) = Len(before)
          /\ \A i \in DOMAIN before :
                /\ SameButExpansion(after[i], before[i])
                /\ after[i].isExpanded =
                      IF before[i].path = lastTransform.path
                      THEN ~before[i].isExpanded
                      ELSE before[i].isExpanded

\* The toggled path is the path of a node that did not change
C27_ToggledNodeUnchanged ==
    /\ tree # <<>>
    /\ lastTransform.op = "toggle"
    /\ \E i \in DOMAIN Subtree(tree[1]) :
          /\ Subtree(tree[1])[i].path = lastTransform.path
          /\ Subtree(tree[1])[i] = Subtree(lastTransform.before[1])[i]

\* The first node in document order whose path is `path` is the one negated;
\* every other node keeps every field
C27_FirstNodeAtPathToggled ==
    (tree # <<>> /\ lastTransform.op = "toggle") =>
       LET before == Subtree(lastTransform.before[1])
           after == Subtree(tree[1])
           first(i) == /\ before[i].path = lastTransform.path
                       /\ \A j \in 1..(i - 1) : before[j].path # lastTransform.path
       IN /\ Len(after) = Len(before)
          /\ \A i \in DOMAIN before :
                /\ SameButExpansion(after[i], before[i])
                /\ after[i].isExpanded =
                      IF first(i) THEN ~before[i].isExpanded ELSE before[i].isExpanded

(***************************************************************************)
(* Part E.  Properties of the rows and of the reconstruction               *)
(***************************************************************************)
\* The node of the tree a result was found at is the node of a row
Shown(rows, result) ==
    \E r \in DOMAIN rows :
       /\ ~rows[r].isVirtualPlaceholder
       /\ rows[r].node.path = result.path
       /\ rows[r].node.key = result.key
       /\ rows[r].node.type = result.type

IsPrefix(p, q) == Len(p) <= Len(q) /\ SubSeq(q, 1, Len(p)) = p

\* C28: after expandPaths(getPathsToExpand(results)) the node of every result
\* is a row of the list, under the simple and under the progressive
\* flattening, and a node whose path is a prefix of no result path keeps its
\* isExpanded.
C28_ResultsAreShown ==
    (tree # <<>> /\ lastTransform.op = "expandPaths") =>
       LET results == lastTransform.results
           before == Subtree(lastTransform.before[1])
           after == Subtree(tree[1])
       IN /\ \A r \in DOMAIN results :
                /\ Shown(FlattenJsonTree(tree[1], 0), results[r])
                /\ Shown(FlattenJsonTreeProgressive(tree[1], 0, loadedChunks),
                         results[r])
          /\ \A i \in DOMAIN before :
                (\A r \in DOMAIN results : ~IsPrefix(before[i].path, results[r].path))
                   => after[i].isExpanded = before[i].isExpanded

\* A result of the expansion is behind a "load more" row of the list
C28_ResultBehindLoadMore ==
    /\ tree # <<>>
    /\ lastTransform.op = "expandPaths"
    /\ UseProgressive(tree[1])
    /\ \E r \in DOMAIN lastTransform.results :
          ~Shown(FlatNodes(tree[1], loadedChunks), lastTransform.results[r])

\* Under the simple flattening every result is shown, and the expansion
\* touches only the prefixes of result paths
C28_ShownBySimpleFlattening ==
    (tree # <<>> /\ lastTransform.op = "expandPaths") =>
       LET results == lastTransform.results
           before == Subtree(lastTransform.before[1])
           after == Subtree(tree[1])
       IN /\ \A r \in DOMAIN results :
                Shown(FlattenJsonTree(tree[1], 0), results[r])
          /\ \A i \in DOMAIN before :
                (\A r \in DOMAIN results : ~IsPrefix(before[i].path, results[r].path))
                   => after[i].isExpanded = before[i].isExpanded

\* C29: the value rebuilt from the tree of a parsed text is the parsed value,
\* with the keys of every object and the items of every array in their order.
C29_RebuildIsParse ==
    (rebuilt # <<>> /\ builtBy = "thread") => rebuilt[1] = input.data

RECURSIVE HasProtoKey(_)
HasProtoKey(value) ==
    \/ value.type = "object" /\ \E i \in DOMAIN value.kids : value.kids[i].k = ProtoKey
    \/ \E i \in DOMAIN value.kids : HasProtoKey(value.kids[i].v)

\* The rebuilt value has lost a key
C29_KeyLost ==
    /\ rebuilt # <<>>
    /\ builtBy = "thread"
    /\ input.data.type = "object"
    /\ Len(rebuilt[1].kids) < Len(input.data.kids)

\* A document without the key __proto__ is rebuilt as it was parsed
C29_RebuildWithoutProto ==
    (rebuilt # <<>> /\ builtBy = "thread" /\ ~HasProtoKey(input.data)) =>
       rebuilt[1] = input.data

(***************************************************************************)
(* Part A.  Properties of the worker pool                                  *)
(***************************************************************************)
\* postMessage has called getWorker in this step; the request is the last one
\* suspended
Acquires == Len(acquiring') > Len(acquiring)

\* The worker count for a JSON text of the given length: 1 below 10 MB, 2 below
\* 50 MB, the maximum otherwise
CountForText(len) ==
    IF len < 10000000 THEN 1
    ELSE IF len < 50000000 THEN 2
    ELSE MAX_WORKERS

LowestUsage(w) ==
    \A i \in DOMAIN workers : UsageOf(workerUsage, w) <= UsageOf(workerUsage, workers[i])

\* What getWorker did in this step, given the count it may create up to
PoolPolicy(count) ==
    LET a == acquiring'[Len(acquiring')]
    IN IF availableWorkers # <<>>
       THEN /\ a.worker \in Range(availableWorkers)
            /\ workers' = workers
       ELSE IF Len(workers) < count
       THEN /\ a.worker \notin Range(workers)
            /\ workers' = Append(workers, a.worker)
       ELSE /\ workers' = workers
            /\ a.worker \in Range(workers)
            /\ LowestUsage(a.worker)

\* C30: the pool never holds more than min(hardware parallelism, 8) workers;
\* getWorker returns an idle worker when there is one, otherwise creates a
\* worker while the pool holds fewer than the count for the length of the JSON
\* text the request carries, otherwise returns a worker of lowest usage.
C30_PoolPolicyByTextLength ==
    /\ [](Len(workers) <= MAX_WORKERS)
    /\ [][Acquires => PoolPolicy(CountForText(acquiring'[Len(acquiring')].len))]_vars

\* The same policy for the size postMessage computes: the length of the text
\* of PARSE_JSON, SEARCH_RAW_JSON and SEARCH_RAW_JSON_STREAM, 0 for the rest
C30_PoolPolicyByDataSize ==
    /\ [](Len(workers) <= MAX_WORKERS)
    /\ [][Acquires =>
            PoolPolicy(GetOptimalWorkerCount(
                DataSize(acquiring'[Len(acquiring')].type,
                         acquiring'[Len(acquiring')].len)))]_vars

\* A PARSE_JSON_METADATA request with a text above 50 MB waits for a worker
\* that is already in use, in a pool of one
C30_BigTextOnBusyWorker ==
    /\ \E i \in DOMAIN acquiring :
          /\ acquiring[i].type = "PARSE_JSON_METADATA"
          /\ acquiring[i].len > 50000000
          /\ UsageOf(workerUsage, acquiring[i].worker) > 1
    /\ Len(workers) = 1

(***************************************************************************)
(* Part A.  Properties of the admission estimate                           *)
(***************************************************************************)
\* The estimate by kind of request: 1 KB, plus twice the text for a parse,
\* half the text for a search in raw JSON, 50 KB for a search in a tree
EstimateByKind(type, len) ==
    1024 + (CASE type \in {"PARSE_JSON", "PARSE_JSON_METADATA"} -> len * 2
              [] type \in {"SEARCH_RAW_JSON", "SEARCH_RAW_JSON_STREAM"} -> len \div 2
              [] type \in {"SEARCH", "SEARCH_STREAM"} -> 50 * 1024
              [] OTHER -> 0)

\* C31: the estimate of an admitted request is 1 KB plus twice the text length
\* for PARSE_JSON and PARSE_JSON_METADATA, half the text length for
\* SEARCH_RAW_JSON and SEARCH_RAW_JSON_STREAM and 50 KB for SEARCH and
\* SEARCH_STREAM, and no admitted request lifts the tracked memory above 100 MB.
C31_EstimateByKind ==
    [][Acquires =>
          LET a == acquiring'[Len(acquiring')]
          IN /\ a.estimatedMemory = EstimateByKind(a.type, a.len)
             /\ currentMemoryUsage + a.estimatedMemory <= MAX_MEMORY_USAGE]_vars

\* The estimate as estimateOperationMemory computes it: the text counts for
\* PARSE_JSON and SEARCH_RAW_JSON only, the 50 KB for SEARCH only
C31_EstimateOfThreeTypes ==
    [][Acquires =>
          LET a == acquiring'[Len(acquiring')]
          IN /\ a.estimatedMemory =
                   1024 + (CASE a.type = "PARSE_JSON" -> a.len * 2
                             [] a.type = "SEARCH_RAW_JSON" -> a.len \div 2
                             [] a.type = "SEARCH" -> 50 * 1024
                             [] OTHER -> 0)
             /\ currentMemoryUsage + a.estimatedMemory <= MAX_MEMORY_USAGE]_vars

\* A parse of a text of 100,000,000 characters is admitted at the base estimate
C31_BigParseAtBaseEstimate ==
    \E i \in DOMAIN acquiring :
       /\ acquiring[i].type = "PARSE_JSON_METADATA"
       /\ acquiring[i].len = BigLen
       /\ acquiring[i].estimatedMemory = 1024

(***************************************************************************)
(* Part B.  Properties of the expansion of results                         *)
(***************************************************************************)
\* The search whose results are shown has returned and every expandPaths
\* callback has run
SearchSettled ==
    /\ searchResults # <<>>
    /\ searchResults[1] \notin Unresolved
    /\ idleQueue = <<>>

\* C32: once a search has completed with results, the ancestors of every one
\* of its results are expanded, whichever path ran the search.
C32_EveryResultExpanded ==
    SearchSettled =>
       \A k \in DOMAIN searchResults :
          <<searchResults[k], k>> \in jsonNode.expandedResults

\* The first five results are expanded
C32_FirstFiveExpanded ==
    SearchSettled =>
       \A k \in DOMAIN searchResults :
          k <= 5 => <<searchResults[k], k>> \in jsonNode.expandedResults

\* A streamed search has completed with six results, the sixth not expanded
C32_SixthResultCollapsed ==
    /\ SearchSettled
    /\ Len(searchResults) = 6
    /\ <<searchResults[6], 6>> \notin jsonNode.expandedResults
    /\ \A k \in 1..5 : <<searchResults[k], k>> \in jsonNode.expandedResults

(***************************************************************************)
(* Part C.  Properties of the order of results                             *)
(***************************************************************************)
\* The results of the substring search in a list, in the order delivered
SubstringResults(l) == SelectSeq(l.results, LAMBDA r : r.matchType \in {"key", "value"})

\* No result of a deeper node precedes a result of a shallower one
ShallowFirst(results) ==
    \A i, j \in DOMAIN results : i < j => Len(results[i].path) <= Len(results[j].path)

\* C33: the results of a substring search come in breadth-first order, a
\* deeper node never before a shallower one, whichever way the search takes.
C33_BreadthFirstOrder ==
    \A l \in ResultLists : ShallowFirst(SubstringResults(l))

\* The in-thread synchronous search has returned a deeper node first
C33_DeeperFirstInThread ==
    \E l \in ResultLists : l.via = "sync" /\ ~ShallowFirst(SubstringResults(l))

\* The chunked in-thread search and the searches of the worker deliver
\* breadth-first
C33_BreadthFirstButSync ==
    \A l \in ResultLists : l.via # "sync" => ShallowFirst(SubstringResults(l))

(***************************************************************************)
(* Part E.  Properties of the progressive list                             *)
(***************************************************************************)
\* The rows below the row i: those that follow it at a deeper level
RowsBelow(rows, i) ==
    LET last == CHOOSE j \in i..Len(rows) :
                   /\ \A k \in (i + 1)..j : rows[k].level > rows[i].level
                   /\ j = Len(rows) \/ rows[j + 1].level <= rows[i].level
    IN SubSeq(rows, i + 1, last)

\* The rows a node contributes for its children, given its loaded count: the
\* first min(loaded, n) children in order, then one placeholder carrying the
\* rest iff loaded < n, and no row when it is collapsed or has no child
Contributes(rows, i, loaded) ==
    LET node == rows[i].node
        n == Len(ChildrenOf(node))
        shown == Min(loaded, n)
        below == RowsBelow(rows, i)
        direct == SelectSeq(below, LAMBDA r : r.level = rows[i].level + 1)
    IN IF node.isExpanded /\ n > 0
       THEN /\ Len(direct) = shown + (IF loaded < n THEN 1 ELSE 0)
            /\ \A k \in 1..shown :
                  /\ ~direct[k].isVirtualPlaceholder
                  /\ direct[k].node = ChildrenOf(node)[k]
            /\ loaded < n =>
                  /\ below[Len(below)] = direct[shown + 1]
                  /\ direct[shown + 1].isVirtualPlaceholder
                  /\ direct[shown + 1].node = LoadMoreNode(node, rows[i].level, n - shown)
       ELSE below = <<>>

ProgressiveRows == FlattenJsonTreeProgressive(tree[1], 0, loadedChunks)

\* The rows of the children listed for the node of row i
ChildRows(rows, i) ==
    SelectSeq(RowsBelow(rows, i),
              LAMBDA r : r.level = rows[i].level + 1 /\ ~r.isVirtualPlaceholder)

NodeKey(node) == Join(node.path, <<".">>)

NodeId(node) == [path |-> node.path, depth |-> node.depth]

\* The nodes with children other than the parent of the activated row keep
\* their loaded count
OthersKeepCount ==
    lastLoadMore # <<>> =>
       \A i \in DOMAIN Subtree(tree[1]) :
          LET node == Subtree(tree[1])[i]
          IN (ChildrenOf(node) # <<>> /\ NodeId(node) # lastLoadMore[1].parent) =>
                LoadedCount(loadedChunks, NodeKey(node))
                   = LoadedCount(lastLoadMore[1].before, NodeKey(node))

\* C34: in the progressive list an expanded parent with n children and loaded
\* count L contributes its first min(L, n) children and then one placeholder
\* carrying n - min(L, n) iff L < n; activating a placeholder changes the
\* loaded count of its parent only, by CHUNK_SIZE from INITIAL_LOAD_SIZE.
C34_ProgressiveContribution ==
    tree # <<>> =>
       /\ \A i \in DOMAIN ProgressiveRows :
             ~ProgressiveRows[i].isVirtualPlaceholder =>
                Contributes(ProgressiveRows, i,
                            LoadedCount(loadedChunks, NodeKey(ProgressiveRows[i].node)))
       /\ lastLoadMore # <<>> =>
             LoadedCount(loadedChunks, NodeKey(lastLoadMore[1].parent))
                = LoadedCount(lastLoadMore[1].before, NodeKey(lastLoadMore[1].parent))
                  + CHUNK_SIZE
       /\ OthersKeepCount

\* The placeholder of one parent was activated and another parent, with the
\* same path joined by dots, lists more children too
C34_OtherParentLoaded ==
    /\ tree # <<>>
    /\ lastLoadMore # <<>>
    /\ \E i \in DOMAIN ProgressiveRows :
          LET node == ProgressiveRows[i].node
              before == FlattenJsonTreeProgressive(tree[1], 0, lastLoadMore[1].before)
          IN /\ ~ProgressiveRows[i].isVirtualPlaceholder
             /\ NodeId(node) # lastLoadMore[1].parent
             /\ NodeKey(node) = NodeKey(lastLoadMore[1].parent)
             /\ \E j \in DOMAIN before :
                   /\ before[j].node = node
                   /\ ~before[j].isVirtualPlaceholder
                   /\ Len(ChildRows(ProgressiveRows, i)) > Len(ChildRows(before, j))

\* The contribution of every parent follows the count stored under its key,
\* and an activation adds CHUNK_SIZE to the count under the key of the parent
\* and changes the count of no parent with another key
C34_ContributionByKey ==
    tree # <<>> =>
       /\ \A i \in DOMAIN ProgressiveRows :
             ~ProgressiveRows[i].isVirtualPlaceholder =>
                Contributes(ProgressiveRows, i,
                            LoadedCount(loadedChunks, NodeKey(ProgressiveRows[i].node)))
       /\ lastLoadMore # <<>> =>
             /\ LoadedCount(loadedChunks, NodeKey(lastLoadMore[1].parent))
                   = LoadedCount(lastLoadMore[1].before, NodeKey(lastLoadMore[1].parent))
                     + CHUNK_SIZE
             /\ \A i \in DOMAIN Subtree(tree[1]) :
                   LET node == Subtree(tree[1])[i]
                   IN NodeKey(node) # NodeKey(lastLoadMore[1].parent) =>
                         LoadedCount(loadedChunks, NodeKey(node))
                            = LoadedCount(lastLoadMore[1].before, NodeKey(node))

\* Every child of a parent with more than INITIAL_LOAD_SIZE children is listed
\* and no placeholder is left
C34_AllChildrenListed ==
    /\ tree # <<>>
    /\ lastLoadMore # <<>>
    /\ \E i \in DOMAIN Subtree(tree[1]) :
          /\ NodeId(Subtree(tree[1])[i]) = lastLoadMore[1].parent
          /\ Len(ChildrenOf(Subtree(tree[1])[i])) > INITIAL_LOAD_SIZE
    /\ \A i \in DOMAIN ProgressiveRows : ~ProgressiveRows[i].isVirtualPlaceholder

(***************************************************************************)
(* Part D.  Properties of lazy loading                                     *)
(***************************************************************************)
\* The nodes of a tree whose path is `path`, in document order
NodesAt(node, path) == SelectSeq(Subtree(node), LAMBDA n : n.path = path)

\* The LAZY_LOAD_CHILDREN requests the worker handles in this step
LazyHandled == (DOMAIN lazyRequests') \ (DOMAIN lazyRequests)

LimitOf(request) == IF request.limit = <<>> THEN 100 ELSE request.limit[1]

\* C35: LAZY_LOAD_CHILDREN for a stored dataId and a path of a node of the
\* stored tree answers with the first min(limit, n) children of that node, in
\* order, the limit being 100 when the request names none, and leaves the
\* stored tree as it was.
C35_LazyLoadReturnsChildren ==
    [][\A id \in LazyHandled :
          LET request == lazyRequests'[id]
          IN (/\ request.dataId \in DOMAIN workerDataStore
              /\ NodesAt(workerDataStore[request.dataId], request.path) # <<>>) =>
                LET node == NodesAt(workerDataStore[request.dataId], request.path)[1]
                    n == Len(ChildrenOf(node))
                IN /\ outbox'[Len(outbox')] =
                         ChildrenLoadedMsg(id, SubSeq(ChildrenOf(node), 1,
                                                      Min(LimitOf(request), n)))
                   /\ request.dataId \in DOMAIN workerDataStore'
                   /\ workerDataStore'[request.dataId] = workerDataStore[request.dataId]]_vars

\* The path from the root to a node: the keys of the nodes passed
RECURSIVE KeyPaths(_, _)
KeyPaths(node, keys) ==
    {[keys |-> keys, node |-> node]}
    \cup UNION {KeyPaths(ChildrenOf(node)[i], Append(keys, ChildrenOf(node)[i].key[1])) :
                   i \in DOMAIN ChildrenOf(node)}

\* The same for a path that is the sequence of keys from the root to a node
C35_LazyLoadAlongKeys ==
    [][\A id \in LazyHandled :
          LET request == lazyRequests'[id]
          IN request.dataId \in DOMAIN workerDataStore =>
                \A target \in KeyPaths(workerDataStore[request.dataId], <<>>) :
                   target.keys = request.path =>
                      /\ outbox'[Len(outbox')] =
                            ChildrenLoadedMsg(id,
                               SubSeq(ChildrenOf(target.node), 1,
                                      Min(LimitOf(request),
                                          Len(ChildrenOf(target.node)))))
                      /\ request.dataId \in DOMAIN workerDataStore'
                      /\ workerDataStore'[request.dataId]
                            = workerDataStore[request.dataId]]_vars

\* A request with limit 1 was answered with one child of a node that has more
C35_LimitApplied ==
    \E k \in DOMAIN outbox : \E id \in DOMAIN lazyRequests :
       /\ outbox[k].type = "CHILDREN_LOADED"
       /\ outbox[k].messageId = id
       /\ lazyRequests[id].limit = <<1>>
       /\ lazyRequests[id].found
       /\ lazyRequests[id].path = <<>>
       /\ Len(outbox[k].children) = 1

\* The path of a node under the empty key was asked for and no child returned
C35_PathUnderEmptyKey ==
    \E k \in DOMAIN outbox : \E id \in DOMAIN lazyRequests :
       /\ outbox[k].type = "CHILDREN_LOADED"
       /\ outbox[k].messageId = id
       /\ lazyRequests[id].found
       /\ lazyRequests[id].path = <<<<"a">>>>
       /\ outbox[k].children = <<>>
       /\ input.data.kids # <<>>
       /\ input.data.kids[1].k = <<>>

(***************************************************************************)
(* Part A.  Properties of the memory account                               *)
(***************************************************************************)
InFlightEstimates == SumEstimates(operationMetadata, DOMAIN operationMetadata)

\* C36: in every reachable state the tracked memory usage is the sum of the
\* estimates of the operations in flight, and so is never negative, also after
\* clearCache(), forceCleanup() and the periodic cleanup.
C36_UsageIsSumOfEstimates ==
    /\ currentMemoryUsage = InFlightEstimates
    /\ currentMemoryUsage >= 0

\* Every step but clearCache() keeps the account in step with the operations:
\* usage and sum of estimates change by the same amount, or the manager was
\* terminated and both are zero.
C36_AccountKeptButByClearCache ==
    [][ev'.kind # "clearCache" =>
          currentMemoryUsage' - InFlightEstimates'
             = IF ev'.kind = "terminate" THEN 0
               ELSE currentMemoryUsage - InFlightEstimates]_vars

\* The usage is never below zero
C36_UsageNotNegative == currentMemoryUsage >= 0

\* clearCache() ran with operations in flight and left a usage that is not the
\* sum of their estimates
C36_ClearCacheInFlight ==
    /\ ev.kind = "clearCache"
    /\ operationMetadata # <<>>
    /\ currentMemoryUsage # InFlightEstimates

(***************************************************************************)
(* Part A.  Properties of the pool's usage counts                          *)
(***************************************************************************)
\* The operations in flight that were dispatched to worker w
AssignedTo(w) == {id \in Ids : InFlight(id) /\ workerMessageMap[id] = w}

\* The requests that were given worker w and are not registered yet
AcquiringOn(w) == {i \in DOMAIN acquiring : acquiring[i].worker = w}

\* C37: the usage count of every worker of the pool is the number of in-flight
\* operations dispatched to it (a release per operation, no more and no less),
\* and a worker is in the idle set only while none is assigned to it.
C37_UsageCountsAssignedOperations ==
    \A w \in Range(workers) :
        /\ UsageOf(workerUsage, w)
              = Cardinality(AssignedTo(w)) + Cardinality(AcquiringOn(w))
        /\ w \in Range(availableWorkers) =>
              AssignedTo(w) = {} /\ AcquiringOn(w) = {}

\* The same until the first callback of an operation has run
C37_CountsUntilFirstTeardown ==
    (\A id \in Ids : InFlight(id)) => C37_UsageCountsAssignedOperations

\* The usage count never exceeds the operations holding the worker
C37_UsageAtMostAssigned ==
    \A w \in Range(workers) :
        UsageOf(workerUsage, w) <= Cardinality(AssignedTo(w)) + Cardinality(AcquiringOn(w))

\* Two operations shared a worker; one was torn down, and the worker is idle
\* with a usage count of 0 while the other is in flight on it.
C37_IdleWhileAssigned ==
    \E w \in Range(availableWorkers) :
        /\ AssignedTo(w) # {}
        /\ UsageOf(workerUsage, w) = 0
        /\ ev.kind = "terminal"

(***************************************************************************)
(* Part A.  Properties of messages after teardown                          *)
(***************************************************************************)
\* Every teardown starts by removing the watchdog of the operation:
\* cleanupOperation deletes it first and terminate() clears them all.
TornDown(id) == id \in Ids /\ id \notin DOMAIN timeoutIds

\* The worker messages an event of the given kind stands for
MessagesOf(event) ==
    CASE event.kind = "progress" ->
             {[messageId |-> event.id, type |-> "PROGRESS", result |-> FALSE,
               isComplete |-> FALSE]}
      [] event.kind = "stream" ->
             {[messageId |-> event.id, type |-> "SEARCH_RESULT_STREAM", result |-> TRUE,
               isComplete |-> FALSE]}
      [] event.kind = "terminal" -> TerminalMessages(event.id, closure[event.id].type)
      [] OTHER -> {}

\* The handler does nothing for the message: no callback is invoked, nothing
\* is thrown and no field of the manager changes.
Ignored(msg) == OnWorkerMessage(MgrState, msg, StackLimit) = MgrState

\* What the manager holds for operation id
HeldFor(id) ==
    [pending |-> id \in pendingCallbacks, reject |-> id \in rejectCallbacks,
     progress |-> id \in progressCallbacks, stream |-> id \in streamCallbacks,
     timeout |-> IF id \in DOMAIN timeoutIds THEN <<timeoutIds[id]>> ELSE <<>>,
     worker |-> IF id \in DOMAIN workerMessageMap THEN <<workerMessageMap[id]>> ELSE <<>>,
     metadata |-> IF id \in DOMAIN operationMetadata THEN <<operationMetadata[id]>> ELSE <<>>,
     promise |-> PromiseOf(id)]

\* A message for id leaves everything held for the other operations as it is
OthersUntouched(id) ==
    \A other \in Ids \ {id} : HeldFor(other)' = HeldFor(other)

\* C39: a worker message for an operation that was torn down invokes no
\* callback and changes no state of the manager, and a message for one
\* messageId settles or notifies no operation with another messageId.
C39_LateMessageIgnored ==
    [][ev'.kind \in {"progress", "stream", "terminal"} =>
          /\ OthersUntouched(ev'.id)
          /\ TornDown(ev'.id) =>
                /\ \A msg \in MessagesOf(ev') : Ignored(msg)
                /\ UNCHANGED <<poolVars, mapVars, promise>>]_vars

\* The second half alone
C39_OtherOperationsUntouched ==
    [][ev'.kind \in {"progress", "stream", "terminal"} => OthersUntouched(ev'.id)]_vars

\* The watchdog of an operation with a progress callback has fired, and a
\* PROGRESS message for it has been delivered since.
C39_ProgressAfterTimeout ==
    /\ ev.kind = "progress"
    /\ TornDown(ev.id)
    /\ ev.id \in progressCallbacks
    /\ wstate[ev.id] = "running"

(***************************************************************************)
(* Part D.  Properties of a repeated parse                                 *)
(***************************************************************************)
\* C38: parseJson of a text of at most 10 MB returns the full tree of the text
\* whether or not the cache holds an entry for it: a second parse within the
\* TTL returns what the first returned.
C38_CachedParseReturnsFullTree ==
    parseReturn # <<>> => parseReturn[1].node = DocumentNode[parseReturn[1].doc]

\* What a parse answered from the cache shares with the full tree: the root's
\* key, type, path and depth.
C38_CachedParseKeepsRootShape ==
    (parseReturn # <<>> /\ parseReturn[1].hit) =>
        LET cached == parseReturn[1].node
            full == DocumentNode[parseReturn[1].doc]
        IN /\ cached.key = full.key
           /\ cached.type = full.type
           /\ cached.path = full.path
           /\ cached.depth = full.depth

\* The second parse of [1] returned an array whose child is a placeholder
C38_SecondParseShowsPlaceholder ==
    /\ parseReturn # <<>>
    /\ parseReturn[1].hit
    /\ parseReturn[1].doc = 2
    /\ Len(ChildrenOf(parseReturn[1].node)) = 1
    /\ IsPlaceholder(ChildrenOf(parseReturn[1].node)[1])
    /\ ~IsPlaceholder(ChildrenOf(DocumentNode[2])[1])

====
